---- MODULE Spec2Model ----
(***************************************************************************)
(* A model of vexml: the parsing context chain (spanner registries, id     *)
(* source, multi-rest counts), the line partitioning and justification of  *)
(* the renderer, and the gap reconciliation of rendered voices.            *)
(*                                                                         *)
(* The module holds several state machines over one set of variables.      *)
(* Every machine has its own initial predicate and next-state relation;    *)
(* a machine that is not running keeps its variables at their idle values. *)
(*   Spec           the spanner registries of the context chain            *)
(*   SpecMultiRest  the multi-rest counts of ScoreContext                  *)
(*   SpecLines      Vexml.partitionToLines and the fit pass of render      *)
(*   SpecFit        MeasureFragment.render / getSystemFitWidth             *)
(*   SpecLayout     SpecLines and SpecFit side by side                     *)
(*   SpecVoice      Voice.renderEntries                                    *)
(*   SpecLifecycle  every call of the spanner lifecycle, lookups included  *)
(*   SpecVoiceContext  the beams and tuplets of VoiceContext               *)
(*   SpecLookups    the begin, continue and close calls of every spanner   *)
(*   SpecSpanners   the wedges, pedals and tuplets of the context chain    *)
(*   SpecFragments  Measure.getFragments                                   *)
(*   SpecSystem     System.render and Measure.render                       *)
(*   SpecAccidentals  the active accidentals of MeasureContext              *)
(*   SpecParse      Voice.parse of the parser                              *)
(*   SpecWidth      MeasureFragment.getMinRequiredWidth, Ensemble.format   *)
(*   SpecModifiers  the modifier pass of Vexml.render                      *)
(*   SpecBarlines   the barline pass of Vexml.render                       *)
(*   SpecChanges    MeasureFragment.getChangedStaveModifiers               *)
(*   SpecStave      Stave.parse of the parser: the voices of a stave       *)
(*   SpecDuration   Voice.createVoiceEntry: the duration denominator       *)
(*   SpecKey        Key.isEqual and Key.isEquivalent of the parser         *)
(*   SpecKeySignature  Key.getKeySignature of the MusicXML wrappers        *)
(*   SpecBeams      MeasureFragment.extractVfBeams                         *)
(*   SpecFragmentRender  Fragment.render: the part label group             *)
(*   SpecFormat     Ensemble.format: the rects of a fragment render        *)
(*   SpecHook       useMusicXML of the site                                *)
(***************************************************************************)
EXTENDS Integers, Sequences, FiniteSets, TLC

VARIABLES
  \* ---- context chain: spanners (contexts.ts)
  idCounter,        \* IdProvider: the number of ids handed out so far
  curveIds,         \* ScoreContext.curveIds: curve number (or Null) -> curve id
  wedgeIds,         \* ScoreContext.wedgeIds: part id -> stave number -> wedge id
  pedalIds,         \* ScoreContext.pedalIds: part id -> pedal id
  beams,            \* VoiceContext.beams: ids of the beams of the current voice context
  openTuplets,      \* VoiceContext.openTuplets: insertion-ordered map number -> tuplet id
  closedTuplets,    \* VoiceContext.closedTuplets
  lastCall,         \* the latest call of the chain: operation, key, returned value
  issued,           \* history: the ids returned by begin calls so far
  nBegun,           \* history: the number of begin calls so far
  begun,            \* history: curve number -> id returned by its latest beginCurve
  nextPedalMarkTypes,  \* ScoreContext.nextPedalMarkTypes: insertion-ordered map pedal id -> type
  stopped,          \* history, where it is kept: curve number -> the latest curve of
                    \*          the number has been stopped; tuplet number -> the ids
                    \*          begun under it in the current voice context
  \* ---- context chain: multi-rest counts (contexts.ts)
  multiRestCounts,  \* part id -> insertion-ordered map (stave number | Null) -> count
  mrTrack,          \* history: the increment under observation and the decrements since
  mrLast,           \* history: the latest multi-rest call
  \* ---- Vexml.partitionToLines / Vexml.render
  lpc,              \* position in render: "idle", "partition", "filter", "fit", "done"
  width,            \* Vexml.width, the target width
  systems,          \* the input systems: justify width and modifiers width of each
  sysIndex,         \* the index of the next system of the for loop
  lines,            \* the lines built so far: sequences of system indexes
  remainingWidth,   \* partitionToLines.remainingWidth
  sysWidth,         \* the width set on each system (System.setWidth)
  firstOfLine,      \* history: whether each system was added as the first of its line
  lineWidth,        \* after the fit pass: the total width of every line
  \* ---- MeasureFragment.render
  fpc,              \* "idle", "render", "done"
  fragments,        \* the fragments of the system: minimum required width of each
  isLastSystem,     \* render option
  targetSystemWidth,       \* render option
  minRequiredSystemWidth,  \* render option
  fragIndex,        \* the next fragment to render
  rendered,         \* the widths of the fragment renderings so far (rationals)
  \* ---- Voice.renderEntries
  vpc,              \* "idle", "loop", "done"
  entries,          \* the voice entries of the document: measureBeat, duration
  voiceEntryIndex,  \* loop variable
  currentMeasureBeat,  \* the running cursor
  tickables,        \* the tickables added to the vexflow voice, in order
  siblingEnd,       \* the beat at which a simultaneous voice of the same stave ends
  \* ---- Measure.getFragments
  gpc,              \* "idle", "loop", "done"
  measureEntries,   \* Measure.measureEntries: the kind of every entry
  nextSignature,    \* the stave signature after the last one of the measure, if any
  barStyles,        \* beginningBarStyle and endBarStyle of the measure
  measureEntryIndex,       \* loop variable
  staveSignature,          \* the signature in force: 0 the leading one, else an entry index
  currentMeasureEntries,   \* the entries of the fragment under construction
  measureFragments,        \* the fragments added so far
  \* ---- System.render / Measure.render
  spc,              \* "idle", "loop", "done"
  systemMeasures,   \* System.measures: the widths of the fragment renderings of each
  systemX,          \* render option x of the system
  systemMeasureIndex,      \* the next measure of the loop
  renderX,          \* System.render: x
  measureRenderings,       \* the measure renderings so far, with the x they were given
  \* ---- MeasureContext: accidentals (contexts.ts)
  accidentals,      \* MeasureContext.accidentals of the current measure context
  accLast,          \* history: the latest call, "none", "new" or "set"
  accEarlier,       \* history: an accidental was set through an earlier measure context
  \* ---- Voice.parse (parsing)
  ppc,              \* "idle", "parse", "entries", "done"
  voiceEvents,      \* Voice.events: the type of every event
  voiceOf,          \* the part id and stave number of the StaveContext handed to parse
  parseIndex,       \* parseEntries: the next event of the for loop
  parsedEntries,    \* the entries of the voice built so far
  parsedBeams,      \* the beams of the returned voice
  \* ---- MeasureFragment.getMinRequiredWidth (measurefragment2.ts)
  mpc,              \* "idle", "parts", "staves", "done", "threw"
  mf,               \* the fragment: part ids, the parts that have a stave signature and
                    \* bar style entries, the entry of each part's stave, the widths
  mfIndex,          \* the next part id of getParts, then the next stave of the loop
  mfParts,          \* the parts getParts has built so far
  vfVoices,         \* the number of vexflow voices collected so far
  mfWidth,          \* the returned width
  \* ---- Ensemble.format (the stave width of a fragment that is given no width)
  epc,              \* "idle", "format", "done"
  ensemble,         \* the multi-rest count, the fragment count, the voices of each stave
  ensVoiceWidth,    \* what getVoiceWidth returned
  \* ---- Vexml.render: the modifier pass and the barline pass over the lines
  rpc,              \* "idle", "modifiers", "barlines", "done"
  renderLines,      \* the lines partitionToLines returned: the staves of the systems
                    \* of each line, and the end bar type each line came with
  lineIndex,        \* the next line of the pass
  timeSignature,    \* render: let timeSignature
  clef,             \* render: let clef
  beginningModifiers,  \* what setBeginningModifiers was given, line by line
  endBarTypes,      \* the end bar type of every line
  \* ---- MeasureFragment.getMinRequiredWidth(previousMeasureFragment) (stave modifiers)
  cpc,              \* "idle", "call", "done"
  fragment,         \* the fragment: systemId, staves, minimum justify width
  previousMeasureFragment,  \* the argument: none, or a fragment's systemId and staves
  changedModifiers, \* what getChangedStaveModifiers returned
  changedMinRequiredWidth, \* what getMinRequiredWidth returned
  \* ---- Stave.parse of the parser (stave.ts)
  stavePc,          \* "idle", "parse", "voices", "done", "threw"
  staveEvents,      \* Stave.events: the type and the voice id of every event
  staveVoiceIds,    \* getVoices: the distinct voice ids
  staveVoices,      \* the Voice objects constructed so far: id and events
  \* ---- Voice.createVoiceEntry of the renderer: the duration denominator
  dpc,              \* "idle", "create", "done"
  durNote,          \* the note of the entry: its type (or none) and its duration
  durationDenominator, \* createVoiceEntry: const durationDenominator
  \* ---- Key of the parser (parsing/musicxml/key.ts)
  kpc,              \* "idle", "call", "done"
  keyThis,          \* the key the method is called on
  keyArg,           \* the key handed to the method
  keyCall,          \* the latest call: the method and what it returned
  \* ---- Key of the MusicXML wrappers (musicxml/key.ts)
  qpc,              \* "idle", "call", "done"
  keyElement,       \* the <key> element: its <fifths> and <mode> children, if any
  keyReturn,        \* the latest call: the method and what it returned
  \* ---- MeasureFragment.extractVfBeams
  bpc,              \* "idle", "extract", "done"
  beamEntries,      \* voice.entries: the type of each entry and the beam value of
                    \* the note that determines its beaming
  beamIndex,        \* the index of the for loop, over the stemmables
  vfStemmables,     \* extractVfBeams.vfStemmables: the entries of the open group
  vfBeams,          \* extractVfBeams.vfBeams: the entries of every beam built
  \* ---- Fragment.render (rendering/fragment.ts)
  frPc,             \* "idle", "render", "parts", "done"
  frKey,            \* Fragment.key: system, measure and measure entry index
  frWidth,          \* Fragment.width: null or a width
  frInputs,         \* the width of the part label group, the part count
  partLabelGroupRender,  \* render: const partLabelGroupRender, null or its width
  partWidths,       \* the width handed to every Part
  \* ---- Ensemble.format: the rects of a FragmentRender
  fragmentRender,   \* the FragmentRender handed to format: rectSrc, rects, excess heights
  fmtParams,        \* the parameters of the latest call: width, paddings, cache
  fmtStaveWidth,    \* the width the latest call set on the vexflow staves
  fmtLast,          \* the latest call of format: "none", "returned", "threw"
  fmtCalls,         \* history: the calls of format so far
  fmtReturned,      \* history: the calls of format that returned
  \* ---- useMusicXML (site/src/hooks/useMusicXML.ts)
  currentSource,    \* useState: currentSource, null before the first render
  musicXML,         \* useState: musicXML
  error,            \* useState: error, null or the error of a failed fetch
  inFlight,         \* the fetches that have neither resolved nor failed: id and url
  nRenders,         \* the renders of the hook so far
  hookLoaded        \* history: the source of the latest render has been loaded

ctxVars == <<idCounter, curveIds, wedgeIds, pedalIds, beams, openTuplets,
             closedTuplets, lastCall, issued, nBegun, begun,
             nextPedalMarkTypes, stopped>>
mrVars == <<multiRestCounts, mrTrack, mrLast>>
lineVars == <<lpc, width, systems, sysIndex, lines, remainingWidth, sysWidth,
              firstOfLine, lineWidth>>
fitVars == <<fpc, fragments, isLastSystem, targetSystemWidth,
             minRequiredSystemWidth, fragIndex, rendered>>
voiceVars == <<vpc, entries, voiceEntryIndex, currentMeasureBeat, tickables,
               siblingEnd>>
measureVars == <<gpc, measureEntries, nextSignature, barStyles, measureEntryIndex,
                 staveSignature, currentMeasureEntries, measureFragments>>
systemVars == <<spc, systemMeasures, systemX, systemMeasureIndex, renderX,
                measureRenderings>>
accVars == <<accidentals, accLast, accEarlier>>
parseVars == <<ppc, voiceEvents, voiceOf, parseIndex, parsedEntries, parsedBeams>>
mfVars == <<mpc, mf, mfIndex, mfParts, vfVoices, mfWidth>>
ensVars == <<epc, ensemble, ensVoiceWidth>>
widthVars == <<mfVars, ensVars>>
passVars == <<rpc, renderLines, lineIndex, timeSignature, clef, beginningModifiers,
              endBarTypes>>
changeVars == <<cpc, fragment, previousMeasureFragment, changedModifiers,
                changedMinRequiredWidth>>
staveVars == <<stavePc, staveEvents, staveVoiceIds, staveVoices>>
durVars == <<dpc, durNote, durationDenominator>>
keyVars == <<kpc, keyThis, keyArg, keyCall>>
keySigVars == <<qpc, keyElement, keyReturn>>
beamVars == <<bpc, beamEntries, beamIndex, vfStemmables, vfBeams>>
fragmentRenderVars == <<frPc, frKey, frWidth, frInputs, partLabelGroupRender, partWidths>>
formatVars == <<fragmentRender, fmtParams, fmtStaveWidth, fmtLast, fmtCalls, fmtReturned>>
hookVars == <<currentSource, musicXML, error, inFlight, nRenders, hookLoaded>>
vars == <<ctxVars, mrVars, lineVars, fitVars, voiceVars, measureVars, systemVars,
        accVars, parseVars, widthVars, passVars, changeVars, staveVars, durVars,
        keyVars, keySigVars, beamVars, fragmentRenderVars, formatVars, hookVars>>

\* what the actions of one machine leave alone: the other machines
CtxFrame == UNCHANGED <<mrVars, lineVars, fitVars, voiceVars, measureVars,
        systemVars, accVars, parseVars, widthVars, passVars, changeVars, staveVars,
        durVars, keyVars, keySigVars, beamVars, fragmentRenderVars, formatVars,
        hookVars>>
MRFrame == UNCHANGED <<ctxVars, lineVars, fitVars, voiceVars, measureVars,
        systemVars, accVars, parseVars, widthVars, passVars, changeVars, staveVars,
        durVars, keyVars, keySigVars, beamVars, fragmentRenderVars, formatVars,
        hookVars>>
LinesFrame == UNCHANGED <<ctxVars, mrVars, fitVars, voiceVars, measureVars,
        systemVars, accVars, parseVars, widthVars, passVars, changeVars, staveVars,
        durVars, keyVars, keySigVars, beamVars, fragmentRenderVars, formatVars,
        hookVars>>
FitFrame == UNCHANGED <<ctxVars, mrVars, lineVars, voiceVars, measureVars,
        systemVars, accVars, parseVars, widthVars, passVars, changeVars, staveVars,
        durVars, keyVars, keySigVars, beamVars, fragmentRenderVars, formatVars,
        hookVars>>
VoiceFrame == UNCHANGED <<ctxVars, mrVars, lineVars, fitVars, measureVars,
        systemVars, accVars, parseVars, widthVars, passVars, changeVars, staveVars,
        durVars, keyVars, keySigVars, beamVars, fragmentRenderVars, formatVars,
        hookVars>>
MeasureFrame == UNCHANGED <<ctxVars, mrVars, lineVars, fitVars, voiceVars,
        systemVars, accVars, parseVars, widthVars, passVars, changeVars, staveVars,
        durVars, keyVars, keySigVars, beamVars, fragmentRenderVars, formatVars,
        hookVars>>
SystemFrame == UNCHANGED <<ctxVars, mrVars, lineVars, fitVars, voiceVars,
        measureVars, accVars, parseVars, widthVars, passVars, changeVars, staveVars,
        durVars, keyVars, keySigVars, beamVars, fragmentRenderVars, formatVars,
        hookVars>>
AccFrame == UNCHANGED <<ctxVars, mrVars, lineVars, fitVars, voiceVars, measureVars,
        systemVars, parseVars, widthVars, passVars, changeVars, staveVars, durVars,
        keyVars, keySigVars, beamVars, fragmentRenderVars, formatVars, hookVars>>
ParseFrame == UNCHANGED <<ctxVars, mrVars, lineVars, fitVars, voiceVars, measureVars,
        systemVars, accVars, widthVars, passVars, changeVars, staveVars, durVars,
        keyVars, keySigVars, beamVars, fragmentRenderVars, formatVars, hookVars>>
WidthFrame == UNCHANGED <<ctxVars, mrVars, lineVars, fitVars, voiceVars, measureVars,
        systemVars, accVars, parseVars, passVars, changeVars, staveVars, durVars,
        keyVars, keySigVars, beamVars, fragmentRenderVars, formatVars, hookVars>>
PassFrame == UNCHANGED <<ctxVars, mrVars, lineVars, fitVars, voiceVars, measureVars,
        systemVars, accVars, parseVars, widthVars, changeVars, staveVars, durVars,
        keyVars, keySigVars, beamVars, fragmentRenderVars, formatVars, hookVars>>
ChangeFrame == UNCHANGED <<ctxVars, mrVars, lineVars, fitVars, voiceVars,
        measureVars, systemVars, accVars, parseVars, widthVars, passVars, staveVars,
        durVars, keyVars, keySigVars, beamVars, fragmentRenderVars, formatVars,
        hookVars>>
StaveFrame == UNCHANGED <<ctxVars, mrVars, lineVars, fitVars, voiceVars, measureVars,
        systemVars, accVars, parseVars, widthVars, passVars, changeVars, durVars,
        keyVars, keySigVars, beamVars, fragmentRenderVars, formatVars, hookVars>>
DurationFrame == UNCHANGED <<ctxVars, mrVars, lineVars, fitVars, voiceVars,
        measureVars, systemVars, accVars, parseVars, widthVars, passVars, changeVars,
        staveVars, keyVars, keySigVars, beamVars, fragmentRenderVars, formatVars,
        hookVars>>
KeyFrame == UNCHANGED <<ctxVars, mrVars, lineVars, fitVars, voiceVars, measureVars,
        systemVars, accVars, parseVars, widthVars, passVars, changeVars, staveVars,
        durVars, keySigVars, beamVars, fragmentRenderVars, formatVars, hookVars>>
KeySignatureFrame == UNCHANGED <<ctxVars, mrVars, lineVars, fitVars, voiceVars,
        measureVars, systemVars, accVars, parseVars, widthVars, passVars, changeVars,
        staveVars, durVars, keyVars, beamVars, fragmentRenderVars, formatVars,
        hookVars>>
BeamFrame == UNCHANGED <<ctxVars, mrVars, lineVars, fitVars, voiceVars, measureVars,
        systemVars, accVars, parseVars, widthVars, passVars, changeVars, staveVars,
        durVars, keyVars, keySigVars, fragmentRenderVars, formatVars, hookVars>>
FragmentRenderFrame == UNCHANGED <<ctxVars, mrVars, lineVars, fitVars, voiceVars,
        measureVars, systemVars, accVars, parseVars, widthVars, passVars, changeVars,
        staveVars, durVars, keyVars, keySigVars, beamVars, formatVars, hookVars>>
FormatFrame == UNCHANGED <<ctxVars, mrVars, lineVars, fitVars, voiceVars,
        measureVars, systemVars, accVars, parseVars, widthVars, passVars, changeVars,
        staveVars, durVars, keyVars, keySigVars, beamVars, fragmentRenderVars,
        hookVars>>
HookFrame == UNCHANGED <<ctxVars, mrVars, lineVars, fitVars, voiceVars, measureVars,
        systemVars, accVars, parseVars, widthVars, passVars, changeVars, staveVars,
        durVars, keyVars, keySigVars, beamVars, fragmentRenderVars, formatVars>>

\* null / undefined of the source; ids, curve numbers and stave numbers start at 1
Null == 0

\* no part
NoPart == ""

----------------------------------------------------------------------------
(* Helpers on sequences *)

Range(s) == {s[i] : i \in 1..Len(s)}

RECURSIVE SumSeq(_)
SumSeq(s) == IF s = <<>> THEN 0 ELSE s[1] + SumSeq(Tail(s))

RECURSIVE Flatten(_)
Flatten(ss) == IF ss = <<>> THEN <<>> ELSE ss[1] \o Flatten(Tail(ss))

SeqsUpTo(S, n) == UNION {[1..k -> S] : k \in 0..n}

----------------------------------------------------------------------------
(* The spanner registries of the context chain *)

\* the ids one id provider may hand out in a run of the model
MaxIds == 3

PartIds == {"P1", "P2"}
StaveNumbers == {1, 2}
CurveNumbers == {Null, 1, 2}
TupletNumbers == {1, 2}

\* no pedal mark
NoMark == ""

\* the history of curve stops, kept where `on` is set, and the history of the
\* tuplets begun under each number in the current voice context, kept where
\* `tuplets` is set
History(on) == [on |-> on, curve |-> [n \in CurveNumbers |-> FALSE],
                tuplets |-> FALSE, tuplet |-> [n \in TupletNumbers |-> {}]]

NoHistory == History(FALSE)

\* the history after the begin or the stop of a curve
Record(h) == IF stopped.on THEN h ELSE stopped

\* the history after a call on the tuplets of a voice context
RecordTuplet(h) == IF stopped.tuplets THEN h ELSE stopped

IdleCall == [op |-> "none", part |-> NoPart, num |-> Null, ret |-> Null,
             ids |-> <<>>, mark |-> NoMark]

\* a new ScoreContext and a new VoiceContext: nothing registered
EmptyRegistries ==
  /\ curveIds = [n \in CurveNumbers |-> Null]
  /\ wedgeIds = [p \in PartIds |-> [s \in StaveNumbers |-> Null]]
  /\ pedalIds = [p \in PartIds |-> Null]
  /\ beams = <<>>
  /\ openTuplets = <<>>
  /\ closedTuplets = <<>>
  /\ lastCall = IdleCall
  /\ issued = {}
  /\ nBegun = 0
  /\ begun = [n \in CurveNumbers |-> Null]
  /\ nextPedalMarkTypes = <<>>

InitCtx == idCounter = 0 /\ EmptyRegistries /\ stopped = NoHistory

\* IdProvider.next(): the next id of a monotonically increasing source
IdProviderNext(counter) == counter + 1

\* ScoreContext.nextId(), reached unchanged through every context of the chain
NextId == IdProviderNext(idCounter)

\* the bookkeeping common to the begin calls: the id is taken and returned
Begin(op, part, num, id) ==
  /\ idCounter < MaxIds
  /\ idCounter' = idCounter + 1
  /\ lastCall' = [op |-> op, part |-> part, num |-> num, ret |-> id, ids |-> <<>>, mark |-> NoMark]
  /\ issued' = issued \cup {id}
  /\ nBegun' = nBegun + 1

\* the id ScoreContext.beginCurve registers and returns
BeginCurveId == NextId

BeginCurve(n) ==
  /\ Begin("beginCurve", NoPart, n, BeginCurveId)
  /\ curveIds' = [curveIds EXCEPT ![n] = BeginCurveId]
  /\ begun' = [begun EXCEPT ![n] = BeginCurveId]
  /\ stopped' = Record([stopped EXCEPT !.curve[n] = FALSE])
  /\ UNCHANGED <<wedgeIds, pedalIds, beams, openTuplets, closedTuplets,
                 nextPedalMarkTypes>>
  /\ CtxFrame

\* mutant: the latest curve is continued, whatever its number
ContinueCurveLatest(n) ==
  IF \A m \in CurveNumbers : curveIds[m] = Null THEN Null
  ELSE CHOOSE id \in {curveIds[m] : m \in CurveNumbers} :
         \A m \in CurveNumbers : curveIds[m] <= id

\* ScoreContext.continueCurve: the registered id of the number, or null
ContinueCurveResult(n) == curveIds[n]

ContinueCurve(n) ==
  /\ lastCall' = [op |-> "continueCurve", part |-> NoPart, num |-> n, ret |-> ContinueCurveResult(n), ids |-> <<>>, mark |-> NoMark]
  /\ UNCHANGED <<idCounter, curveIds, wedgeIds, pedalIds, beams, openTuplets,
                 closedTuplets, issued, nBegun, begun, nextPedalMarkTypes, stopped>>
  /\ CtxFrame

\* the voices of a stave
VoiceIds == {"1", "2"}

\* VoiceContext.beginCurve of the voice v on stave s of part p: every context of
\* the chain hands the call on with the curve number alone, down to ScoreContext
VoiceContextBeginCurve(p, s, v, n) == BeginCurve(n)

\* VoiceContext.continueCurve of the voice v on stave s of part p, handed on the
\* same way
VoiceContextContinueCurve(p, s, v, n) == ContinueCurveResult(n)

BeginWedgeId == NextId

\* PartContext / StaveContext supply their own part id and stave number
BeginWedge(p, s) ==
  /\ Begin("beginWedge", p, s, BeginWedgeId)
  /\ wedgeIds' = [wedgeIds EXCEPT ![p][s] = BeginWedgeId]
  /\ UNCHANGED <<curveIds, pedalIds, beams, openTuplets, closedTuplets, begun, nextPedalMarkTypes, stopped>>
  /\ CtxFrame

CloseWedge(p, s) ==
  /\ wedgeIds' = [wedgeIds EXCEPT ![p][s] = Null]
  /\ lastCall' = [op |-> "closeWedge", part |-> p, num |-> s, ret |-> Null, ids |-> <<>>, mark |-> NoMark]
  /\ UNCHANGED <<idCounter, curveIds, pedalIds, beams, openTuplets,
                 closedTuplets, issued, nBegun, begun, nextPedalMarkTypes, stopped>>
  /\ CtxFrame

BeginPedalId == NextId

BeginPedal(p) ==
  /\ Begin("beginPedal", p, Null, BeginPedalId)
  /\ pedalIds' = [pedalIds EXCEPT ![p] = BeginPedalId]
  /\ UNCHANGED <<curveIds, wedgeIds, beams, openTuplets, closedTuplets, begun, nextPedalMarkTypes, stopped>>
  /\ CtxFrame

ClosePedal(p) ==
  /\ pedalIds' = [pedalIds EXCEPT ![p] = Null]
  /\ lastCall' = [op |-> "closePedal", part |-> p, num |-> Null, ret |-> Null, ids |-> <<>>, mark |-> NoMark]
  /\ UNCHANGED <<idCounter, curveIds, wedgeIds, beams, openTuplets,
                 closedTuplets, issued, nBegun, begun, nextPedalMarkTypes, stopped>>
  /\ CtxFrame

\* mutant: the beam reuses the id of the latest beam of the voice
BeginBeamIdStale == IF beams = <<>> THEN NextId ELSE beams[Len(beams)]

BeginBeamId == NextId

BeginBeam ==
  /\ Begin("beginBeam", NoPart, Null, BeginBeamId)
  /\ beams' = Append(beams, BeginBeamId)
  /\ UNCHANGED <<curveIds, wedgeIds, pedalIds, openTuplets, closedTuplets, begun, nextPedalMarkTypes, stopped>>
  /\ CtxFrame

\* Map.set: an existing key keeps its place, a new key goes last
MapSet(m, k, v) ==
  IF \E i \in 1..Len(m) : m[i].k = k
    THEN [i \in 1..Len(m) |-> IF m[i].k = k THEN [k |-> k, v |-> v] ELSE m[i]]
    ELSE Append(m, [k |-> k, v |-> v])

MapHas(m, k) == \E i \in 1..Len(m) : m[i].k = k

MapGet(m, k) == IF MapHas(m, k) THEN (CHOOSE e \in Range(m) : e.k = k).v ELSE Null

MapDelete(m, k) == SelectSeq(m, LAMBDA e : e.k # k)

BeginTupletId == NextId

BeginTuplet(n) ==
  /\ Begin("beginTuplet", NoPart, n, BeginTupletId)
  /\ openTuplets' = MapSet(openTuplets, n, BeginTupletId)
  /\ stopped' = RecordTuplet([stopped EXCEPT !.tuplet[n] = @ \cup {BeginTupletId}])
  /\ UNCHANGED <<curveIds, wedgeIds, pedalIds, beams, closedTuplets, begun, nextPedalMarkTypes>>
  /\ CtxFrame

CloseTuplet(n) ==
  /\ IF MapHas(openTuplets, n)
       THEN /\ closedTuplets' = Append(closedTuplets, MapGet(openTuplets, n))
            /\ openTuplets' = MapDelete(openTuplets, n)
            /\ lastCall' = [op |-> "closeTuplet", part |-> NoPart, num |-> n,
                            ret |-> MapGet(openTuplets, n), ids |-> <<>>, mark |-> NoMark]
       ELSE /\ UNCHANGED <<closedTuplets, openTuplets>>
            /\ lastCall' = [op |-> "closeTuplet", part |-> NoPart, num |-> n, ret |-> Null, ids |-> <<>>, mark |-> NoMark]
  /\ UNCHANGED <<idCounter, curveIds, wedgeIds, pedalIds, beams, issued, nBegun, begun, nextPedalMarkTypes, stopped>>
  /\ CtxFrame

\* Voice.parse creates a VoiceContext per voice: no beams, no tuplets
\* mutant: a voice context takes over the beams of the one before it
BeamsKept == beams

\* the field initialiser of VoiceContext: beams = new Array()
NewBeams == <<>>

NewVoiceContext ==
  /\ beams' = NewBeams
  /\ openTuplets' = <<>>
  /\ closedTuplets' = <<>>
  /\ lastCall' = [op |-> "newVoiceContext", part |-> NoPart, num |-> Null, ret |-> Null, ids |-> <<>>, mark |-> NoMark]
  /\ stopped' = RecordTuplet([stopped EXCEPT !.tuplet = [n \in TupletNumbers |-> {}]])
  /\ UNCHANGED <<idCounter, curveIds, wedgeIds, pedalIds, issued, nBegun, begun, nextPedalMarkTypes>>
  /\ CtxFrame

\* the unchanged part of a call that only looks a spanner up
LookupOnly ==
  UNCHANGED <<idCounter, curveIds, wedgeIds, pedalIds, beams, openTuplets,
              closedTuplets, issued, nBegun, begun, stopped>>

\* the stop of the curve numbered n: contexts of the chain offer continueCurve for
\* it and nothing else, no call removes an entry of curveIds
StopCurve(n) ==
  /\ curveIds[n] # Null
  /\ lastCall' = [op |-> "stopCurve", part |-> NoPart, num |-> n,
                  ret |-> ContinueCurveResult(n), ids |-> <<>>, mark |-> NoMark]
  /\ stopped' = Record([stopped EXCEPT !.curve[n] = TRUE])
  /\ UNCHANGED <<idCounter, curveIds, wedgeIds, pedalIds, beams, openTuplets,
                 closedTuplets, issued, nBegun, begun>>
  /\ UNCHANGED nextPedalMarkTypes
  /\ CtxFrame

\* mutant: the wedge of the part is continued, whatever its stave
ContinueOpenWedgeAnyStave(p, s) ==
  IF wedgeIds[p][s] # Null THEN wedgeIds[p][s]
  ELSE IF \A z \in StaveNumbers : wedgeIds[p][z] = Null THEN Null
  ELSE wedgeIds[p][CHOOSE z \in StaveNumbers : wedgeIds[p][z] # Null]

\* ScoreContext.continueOpenWedge: wedgeIds.get(partId)?.get(staveNumber) ?? null
ContinueOpenWedgeResult(p, s) == wedgeIds[p][s]

ContinueOpenWedge(p, s) ==
  /\ lastCall' = [op |-> "continueOpenWedge", part |-> p, num |-> s,
                  ret |-> ContinueOpenWedgeResult(p, s), ids |-> <<>>, mark |-> NoMark]
  /\ LookupOnly
  /\ UNCHANGED nextPedalMarkTypes
  /\ CtxFrame

PedalMarkTypes == {"default", "change"}

\* ScoreContext.continueOpenPedal: null without an open pedal; otherwise the mark
\* primed for the pedal (or 'default'), which the call consumes
ContinueOpenPedal(p) ==
  /\ IF pedalIds[p] = Null
       THEN /\ lastCall' = [op |-> "continueOpenPedal", part |-> p, num |-> Null,
                            ret |-> Null, ids |-> <<>>, mark |-> NoMark]
            /\ UNCHANGED nextPedalMarkTypes
       ELSE /\ lastCall' = [op |-> "continueOpenPedal", part |-> p, num |-> Null,
                            ret |-> pedalIds[p], ids |-> <<>>,
                            mark |-> IF MapHas(nextPedalMarkTypes, pedalIds[p])
                                       THEN MapGet(nextPedalMarkTypes, pedalIds[p])
                                       ELSE "default"]
            /\ nextPedalMarkTypes' = MapSet(nextPedalMarkTypes, pedalIds[p], "default")
  /\ LookupOnly
  /\ CtxFrame

\* ScoreContext.primeNextPedalMark
PrimeNextPedalMark(p, pedalMarkType) ==
  /\ IF pedalIds[p] # Null
       THEN nextPedalMarkTypes' = MapSet(nextPedalMarkTypes, pedalIds[p], pedalMarkType)
       ELSE UNCHANGED nextPedalMarkTypes
  /\ lastCall' = [op |-> "primeNextPedalMark", part |-> p, num |-> Null,
                  ret |-> Null, ids |-> <<>>, mark |-> NoMark]
  /\ LookupOnly
  /\ CtxFrame

\* VoiceContext.continueBeam: beams.at(-1)?.id ?? null
ContinueBeamResult == IF beams = <<>> THEN Null ELSE beams[Len(beams)]

ContinueBeam ==
  /\ lastCall' = [op |-> "continueBeam", part |-> NoPart, num |-> Null,
                  ret |-> ContinueBeamResult, ids |-> <<>>, mark |-> NoMark]
  /\ LookupOnly
  /\ UNCHANGED nextPedalMarkTypes
  /\ CtxFrame

\* mutant: the closed tuplets are continued as well
ContinueOpenTupletsAll == closedTuplets \o [i \in 1..Len(openTuplets) |-> openTuplets[i].v]

\* VoiceContext.continueOpenTuplets: the ids of openTuplets.values()
ContinueOpenTupletsResult == [i \in 1..Len(openTuplets) |-> openTuplets[i].v]

ContinueOpenTuplets ==
  /\ lastCall' = [op |-> "continueOpenTuplets", part |-> NoPart, num |-> Null,
                  ret |-> Null, ids |-> ContinueOpenTupletsResult, mark |-> NoMark]
  /\ LookupOnly
  /\ UNCHANGED nextPedalMarkTypes
  /\ CtxFrame

\* every call of the spanner lifecycle
NextLifecycle ==
  \/ \E n \in CurveNumbers : BeginCurve(n)
  \/ \E n \in CurveNumbers : ContinueCurve(n)
  \/ \E n \in CurveNumbers : StopCurve(n)
  \/ \E p \in PartIds, s \in StaveNumbers : BeginWedge(p, s)
  \/ \E p \in PartIds, s \in StaveNumbers : ContinueOpenWedge(p, s)
  \/ \E p \in PartIds, s \in StaveNumbers : CloseWedge(p, s)
  \/ \E p \in PartIds : BeginPedal(p)
  \/ \E p \in PartIds : ContinueOpenPedal(p)
  \/ \E p \in PartIds, m \in PedalMarkTypes : PrimeNextPedalMark(p, m)
  \/ \E p \in PartIds : ClosePedal(p)
  \/ BeginBeam
  \/ ContinueBeam
  \/ \E n \in TupletNumbers : BeginTuplet(n)
  \/ ContinueOpenTuplets
  \/ \E n \in TupletNumbers : CloseTuplet(n)
  \/ NewVoiceContext

NextCtx ==
  \/ \E n \in CurveNumbers : BeginCurve(n)
  \/ \E n \in CurveNumbers : ContinueCurve(n)
  \/ \E p \in PartIds, s \in StaveNumbers : BeginWedge(p, s)
  \/ \E p \in PartIds, s \in StaveNumbers : CloseWedge(p, s)
  \/ \E p \in PartIds : BeginPedal(p)
  \/ \E p \in PartIds : ClosePedal(p)
  \/ BeginBeam
  \/ \E n \in TupletNumbers : BeginTuplet(n)
  \/ \E n \in TupletNumbers : CloseTuplet(n)
  \/ NewVoiceContext

----------------------------------------------------------------------------
(* The multi-rest counts of ScoreContext *)

\* the largest multi-rest count of a run of the model
MaxCount == 2

\* the most (part, stave) keys the registry holds in a run of the model
MaxKeys == 2

StaveKeys == StaveNumbers \cup {Null}

KeyCount(counts) == SumSeq([i \in 1..2 |-> Len(counts[IF i = 1 THEN "P1" ELSE "P2"])])

NoTrack == [on |-> FALSE, p |-> NoPart, s |-> Null, n |-> 0, k |-> 0]

InitMR ==
  /\ multiRestCounts = [p \in PartIds |-> <<>>]
  /\ mrTrack = NoTrack
  /\ mrLast = "none"

\* ScoreContext.getMultiRestCount on the registry `counts`:
\* get(null) ?? get(staveNumber) ?? 0
GetMultiRestCountOf(counts, partId, staveNumber) ==
  IF MapHas(counts[partId], Null) THEN MapGet(counts[partId], Null)
  ELSE IF MapHas(counts[partId], staveNumber) THEN MapGet(counts[partId], staveNumber)
  ELSE 0

getMultiRestCount(partId, staveNumber) ==
  GetMultiRestCountOf(multiRestCounts, partId, staveNumber)

\* the increment under observation ends when the same stave or all staves of the
\* part are incremented again
TrackAfterIncrement(p, s, n) ==
  IF ~mrTrack.on /\ s # Null /\ multiRestCounts[p] = <<>>
    THEN [on |-> TRUE, p |-> p, s |-> s, n |-> n, k |-> 0]
  ELSE IF mrTrack.on /\ mrTrack.p = p /\ s \in {mrTrack.s, Null}
    THEN NoTrack
  ELSE mrTrack

incrementMultiRestCount(p, s, n) ==
  /\ n + getMultiRestCount(p, s) <= MaxCount
  /\ MapHas(multiRestCounts[p], s) \/ KeyCount(multiRestCounts) < MaxKeys
  /\ multiRestCounts' =
       [multiRestCounts EXCEPT ![p] = MapSet(@, s, n + getMultiRestCount(p, s))]
  /\ mrTrack' = TrackAfterIncrement(p, s, n)
  /\ mrLast' = "incrementMultiRestCount"
  /\ MRFrame

\* mutant: the count is lowered without looking at it
ShouldDecrementAlways(count) == TRUE

\* the test of the loop body of decrementMultiRestCounts
ShouldDecrement(count) == count > 0

\* the inner loop of decrementMultiRestCounts over the keys of one part, in the
\* insertion order of the Map, every read seeing the writes made before it
RECURSIVE DecrementPart(_, _, _)
DecrementPart(counts, partId, i) ==
  IF i > Len(counts[partId]) THEN counts
  ELSE LET staveNumber == counts[partId][i].k
           count == GetMultiRestCountOf(counts, partId, staveNumber)
       IN DecrementPart(
            IF ShouldDecrement(count)
              THEN [counts EXCEPT ![partId] = MapSet(@, staveNumber, count - 1)]
              ELSE counts,
            partId, i + 1)

RECURSIVE DecrementParts(_, _)
DecrementParts(counts, todo) ==
  IF todo = {} THEN counts
  ELSE LET partId == CHOOSE p \in todo : TRUE
       IN DecrementParts(DecrementPart(counts, partId, 1), todo \ {partId})

\* the decrements counted after the observed increment: above MaxCount they all
\* leave the count at 0
MaxK == MaxCount + 1

decrementMultiRestCounts ==
  /\ multiRestCounts' = DecrementParts(multiRestCounts, PartIds)
  /\ mrTrack' = IF mrTrack.on /\ mrTrack.k < MaxK
                  THEN [mrTrack EXCEPT !.k = @ + 1] ELSE mrTrack
  /\ mrLast' = "decrementMultiRestCounts"
  /\ MRFrame

NextMR ==
  \/ \E p \in PartIds, s \in StaveKeys, n \in 0..MaxCount :
       incrementMultiRestCount(p, s, n)
  \/ decrementMultiRestCounts

----------------------------------------------------------------------------
(* Vexml.partitionToLines and the passes of Vexml.render that follow it *)

JUSTIFY_PADDING == 100
END_BARLINE_OFFSET == 1

\* the most systems of a score of the model
MaxSystems == 3

\* the target widths and the systems the model draws its scores from:
\* justify width (jw) and modifiers width (mw) of a system
TargetWidths == {300, 900, 1200}
SystemKinds == [jw : {100, 350, 400}, mw : {0, 50}]

InitLines ==
  /\ width \in TargetWidths
  /\ systems \in SeqsUpTo(SystemKinds, MaxSystems)
  /\ lpc = "partition"
  /\ sysIndex = 1
  /\ lines = << <<>> >>
  /\ remainingWidth = width
  /\ sysWidth = <<>>
  /\ firstOfLine = <<>>
  /\ lineWidth = <<>>

\* Line.isEmpty
LineIsEmpty(line) == line = <<>>

\* requiredWidth before the comparison: justify width, padding and, on an empty
\* line, the modifiers width
InitialRequiredWidth(system, needsModifiers) ==
  system.jw + JUSTIFY_PADDING + (IF needsModifiers THEN system.mw ELSE 0)

\* requiredWidth in the else branch: the modifiers width is added to what
\* requiredWidth already holds
NewLineRequiredWidth(system, requiredWidth) == requiredWidth + system.mw

\* mutant: the remaining width is not lowered when a system is added
RemainingWidthKept(remaining, requiredWidth) == remaining

\* remainingWidth -= requiredWidth
RemainingWidthAfter(remaining, requiredWidth) == remaining - requiredWidth

\* one iteration of the for loop of partitionToLines
PartitionStep ==
  /\ lpc = "partition"
  /\ sysIndex <= Len(systems)
  /\ LET system == systems[sysIndex]
         line == lines[Len(lines)]
         needsModifiers == LineIsEmpty(line)
         requiredWidth == InitialRequiredWidth(system, needsModifiers)
     IN IF requiredWidth <= remainingWidth
          THEN /\ remainingWidth' = RemainingWidthAfter(remainingWidth, requiredWidth)
               /\ lines' = [lines EXCEPT ![Len(lines)] = Append(@, sysIndex)]
               /\ sysWidth' = Append(sysWidth, requiredWidth)
               /\ firstOfLine' = Append(firstOfLine, needsModifiers)
          ELSE /\ remainingWidth' = width - NewLineRequiredWidth(system, requiredWidth)
               /\ lines' = Append(lines, <<sysIndex>>)
               /\ sysWidth' = Append(sysWidth, NewLineRequiredWidth(system, requiredWidth))
               /\ firstOfLine' = Append(firstOfLine, TRUE)
  /\ sysIndex' = sysIndex + 1
  /\ UNCHANGED <<lpc, width, systems, lineWidth>>
  /\ LinesFrame

\* mutant: the lines are returned as built
AllLines(ls) == ls

\* lines.filter((line) => !line.isEmpty())
NonEmptyLines(ls) == SelectSeq(ls, LAMBDA line : ~LineIsEmpty(line))

\* the return of partitionToLines
PartitionReturn ==
  /\ lpc = "partition"
  /\ sysIndex > Len(systems)
  /\ lines' = NonEmptyLines(lines)
  /\ lpc' = "fit"
  /\ UNCHANGED <<width, systems, sysIndex, remainingWidth, sysWidth, firstOfLine, lineWidth>>
  /\ LinesFrame

\* the sum of the widths set on the systems of a line
AssignedWidth(line) == SumSeq([i \in 1..Len(line) |-> sysWidth[line[i]]])

\* Line.fit(width): the line is stretched to fill the width
LineFit(line, fitWidth) == fitWidth

\* mutant: every line is fitted
FitCountAll(ls) == Len(ls)

\* lines.slice(0, -1): all the lines but the last
FitCount(ls) == IF Len(ls) = 0 THEN 0 ELSE Len(ls) - 1

\* "Fit all the lines to width except the last one"
FitLines ==
  /\ lpc = "fit"
  /\ lineWidth' = [i \in 1..Len(lines) |->
                     IF i <= FitCount(lines)
                       THEN LineFit(lines[i], width - END_BARLINE_OFFSET)
                       ELSE AssignedWidth(lines[i])]
  /\ lpc' = "done"
  /\ UNCHANGED <<width, systems, sysIndex, lines, remainingWidth, sysWidth, firstOfLine>>
  /\ LinesFrame

NextLines ==
  \/ PartitionStep
  \/ PartitionReturn
  \/ FitLines

----------------------------------------------------------------------------
(* Exact arithmetic on the widths of the renderer: a number is n/d, d > 0, in *)
(* lowest terms; d = 0 is the NaN / Infinity of a division by zero            *)

Abs(i) == IF i < 0 THEN -i ELSE i

RECURSIVE Gcd(_, _)
Gcd(a, b) == IF b = 0 THEN a ELSE Gcd(b, a % b)

RNaN == [n |-> 0, d |-> 0]

RNorm(n, d) ==
  IF d = 0 THEN RNaN
  ELSE LET g == Gcd(Abs(n), Abs(d))
           sgn == IF d < 0 THEN -1 ELSE 1
       IN [n |-> sgn * (n \div g), d |-> sgn * (d \div g)]

RInt(i) == [n |-> i, d |-> 1]
RAdd(a, b) == IF a.d = 0 \/ b.d = 0 THEN RNaN ELSE RNorm(a.n * b.d + b.n * a.d, a.d * b.d)
RSub(a, b) == IF a.d = 0 \/ b.d = 0 THEN RNaN ELSE RNorm(a.n * b.d - b.n * a.d, a.d * b.d)
RMul(a, b) == IF a.d = 0 \/ b.d = 0 THEN RNaN ELSE RNorm(a.n * b.n, a.d * b.d)
RDiv(a, b) == IF a.d = 0 \/ b.d = 0 \/ b.n = 0 THEN RNaN ELSE RNorm(a.n * b.d, a.d * b.n)
RLeq(a, b) == a.d # 0 /\ b.d # 0 /\ a.n * b.d <= b.n * a.d

RECURSIVE RSum(_)
RSum(s) == IF s = <<>> THEN RInt(0) ELSE RAdd(s[1], RSum(Tail(s)))

----------------------------------------------------------------------------
(* MeasureFragment.render: the width of the fragments of one system *)

\* the most fragments of a system of the model
MaxFragments == 3

\* the minimum required widths of fragments: a fragment that opens a system
\* needs room for its clef, key and time signature; a later fragment may need none
MinRequiredWidths == {0, 100, 250}
SystemWidths == {400, 900}
\* the width by which a minRequiredSystemWidth handed to render may differ
\* from the sum over the fragments rendered
SystemWidthSlack == {0, 50}

InitFit ==
  /\ fragments \in {f \in SeqsUpTo(MinRequiredWidths, MaxFragments) :
                      Len(f) >= 1 /\ f[1] > 0}
  /\ isLastSystem \in BOOLEAN
  /\ targetSystemWidth \in SystemWidths
  /\ minRequiredSystemWidth \in {SumSeq(fragments) + e : e \in SystemWidthSlack}
  /\ fpc = "render"
  /\ fragIndex = 1
  /\ rendered = <<>>

\* mutant: the deficit is taken the wrong way round
WidthDeficitSwapped(target, minRequiredSystem) == minRequiredSystem - target

\* widthDeficit = targetSystemWidth - minRequiredSystemWidth
WidthDeficit(target, minRequiredSystem) == target - minRequiredSystem

\* mutant: the share of a fragment is taken of the target width
WidthFractionOfTarget(minRequiredWidth, target, minRequiredSystem) ==
  RDiv(RInt(minRequiredWidth), RInt(target))

\* widthFraction = minRequiredWidth / minRequiredSystemWidth
WidthFraction(minRequiredWidth, target, minRequiredSystem) ==
  RDiv(RInt(minRequiredWidth), RInt(minRequiredSystem))

\* MeasureFragment.getSystemFitWidth
getSystemFitWidth(minRequiredWidth, target, minRequiredSystem) ==
  LET widthDeficit == WidthDeficit(target, minRequiredSystem)
      widthFraction == WidthFraction(minRequiredWidth, target, minRequiredSystem)
      widthDelta == RMul(RInt(widthDeficit), widthFraction)
  IN RAdd(RInt(minRequiredWidth), widthDelta)

\* the width MeasureFragment.render gives the fragment
RenderWidth(minRequiredWidth, last, target, minRequiredSystem) ==
  IF last THEN RInt(minRequiredWidth)
  ELSE getSystemFitWidth(minRequiredWidth, target, minRequiredSystem)

\* MeasureFragment.render of the next fragment of the system
RenderFragment ==
  /\ fpc = "render"
  /\ fragIndex <= Len(fragments)
  /\ rendered' = Append(rendered, RenderWidth(fragments[fragIndex], isLastSystem,
                                              targetSystemWidth, minRequiredSystemWidth))
  /\ fragIndex' = fragIndex + 1
  /\ UNCHANGED <<fpc, fragments, isLastSystem, targetSystemWidth, minRequiredSystemWidth>>
  /\ FitFrame

\* every fragment of the system is rendered
RenderDone ==
  /\ fpc = "render"
  /\ fragIndex > Len(fragments)
  /\ fpc' = "done"
  /\ UNCHANGED <<fragments, isLastSystem, targetSystemWidth, minRequiredSystemWidth,
                 fragIndex, rendered>>
  /\ FitFrame

NextFit ==
  \/ RenderFragment
  \/ RenderDone

----------------------------------------------------------------------------
(* Voice.renderEntries: the tickables of a rendered voice *)

\* Beats are counted in units of 1/256 of a quarter note, the duration of the
\* shortest duration type; a whole note is 1024 units.  A gap of g units is
\* g/1024 of a whole note, which is what measureBeat.subtract(...).divide(4) says.
QuarterBeat == 256

\* DURATION_TYPE_VALUES, longest first: 1/2, 1, 2, 4, ..., 1024
DURATION_TYPE_VALUES == <<2048, 1024, 512, 256, 128, 64, 32, 16, 8, 4, 2, 1>>

\* the most entries of a voice of the model
MaxEntries == 3

\* the voices of the model: every entry follows the end of the one before it
\* by a gap (none, a quarter, a dotted half) and lasts a quarter or a half
EntryGaps == {0, QuarterBeat, 3 * QuarterBeat}
EntryDurations == {QuarterBeat, 2 * QuarterBeat}
InitialMeasureBeats == {0, QuarterBeat}
SiblingEnds == {2 * QuarterBeat, 4 * QuarterBeat}

RECURSIVE EntriesFrom(_, _)
EntriesFrom(start, shape) ==
  IF shape = <<>> THEN <<>>
  ELSE LET e == [measureBeat |-> start + shape[1][1], duration |-> shape[1][2]]
       IN <<e>> \o EntriesFrom(e.measureBeat + e.duration, Tail(shape))

InitVoice ==
  /\ currentMeasureBeat \in InitialMeasureBeats
  /\ entries \in {EntriesFrom(currentMeasureBeat, shape) :
                    shape \in SeqsUpTo(EntryGaps \X EntryDurations, MaxEntries)}
  /\ vpc = "loop"
  /\ voiceEntryIndex = 0
  /\ tickables = <<>>
  /\ siblingEnd \in SiblingEnds

\* Voice.renderVexflowGhostNote: the first (longest) duration type that is not
\* longer than the gap, '1/2' when there is none
RECURSIVE ClosestDuration(_, _)
ClosestDuration(beatDuration, i) ==
  IF i > Len(DURATION_TYPE_VALUES) THEN DURATION_TYPE_VALUES[1]
  ELSE IF DURATION_TYPE_VALUES[i] <= beatDuration THEN DURATION_TYPE_VALUES[i]
  ELSE ClosestDuration(beatDuration, i + 1)

renderVexflowGhostNote(beatDuration) == ClosestDuration(beatDuration, 1)

\* one iteration of the for loop of Voice.renderEntries
RenderEntry ==
  /\ vpc = "loop"
  /\ voiceEntryIndex < Len(entries)
  /\ LET entry == entries[voiceEntryIndex + 1]
         ghost == [type |-> "ghost", beat |-> currentMeasureBeat,
                   duration |-> renderVexflowGhostNote(entry.measureBeat - currentMeasureBeat)]
         real == [type |-> "entry", beat |-> entry.measureBeat, duration |-> entry.duration]
     IN /\ tickables' = IF currentMeasureBeat < entry.measureBeat
                          THEN tickables \o <<ghost, real>>
                          ELSE Append(tickables, real)
        /\ currentMeasureBeat' = entry.measureBeat + entry.duration
  /\ voiceEntryIndex' = voiceEntryIndex + 1
  /\ UNCHANGED <<vpc, entries, siblingEnd>>
  /\ VoiceFrame

\* the return of Voice.renderEntries
RenderEntriesReturn ==
  /\ vpc = "loop"
  /\ voiceEntryIndex >= Len(entries)
  /\ vpc' = "done"
  /\ UNCHANGED <<entries, voiceEntryIndex, currentMeasureBeat, tickables, siblingEnd>>
  /\ VoiceFrame

NextVoice ==
  \/ RenderEntry
  \/ RenderEntriesReturn

----------------------------------------------------------------------------
(* Specifications *)

----------------------------------------------------------------------------
(* Measure.getFragments: the fragments of a measure *)

\* the most entries of a measure of the model
MaxMeasureEntries == 3

\* the kinds of measure entry the loop tells apart: a note or other entry, a
\* direction without a supported metronome, a direction with one, a stave
\* signature without changed modifiers, a stave signature with changed modifiers
EntryKinds == {"note", "direction", "metronome", "signature", "changed"}

\* the bar styles of the model; 'none' is the style of an inner fragment edge
BarStyles == {"regular", "light-heavy"}

\* the signature that follows the last one of the measure: whether it changes the
\* clef, the measure it sits in (counted from this measure) and its entry index
NextSignatures ==
  {[exists |-> FALSE, clef |-> FALSE, measureOffset |-> 0, measureEntryIndex |-> 0]}
    \cup [exists : {TRUE}, clef : BOOLEAN, measureOffset : {1, 2},
          measureEntryIndex : {0, 1}]

\* the leading stave signature of the measure
LeadingSignature == 0

\* the entry that stands for the next signature in the trailing fragment
NextSignatureEntry == Len(measureEntries) + 1

InitFragments ==
  /\ gpc = "loop"
  /\ measureEntries \in SeqsUpTo(EntryKinds, MaxMeasureEntries)
  /\ nextSignature \in NextSignatures
  /\ barStyles \in [beginning : BarStyles, end : BarStyles]
  /\ measureEntryIndex = 0
  /\ staveSignature = LeadingSignature
  /\ currentMeasureEntries = <<>>
  /\ measureFragments = <<>>

\* addFragment: the fragment takes the next index and is pushed
AddFragment(fs, leadingStaveSignature, entries1, beginningBarStyle, endBarStyle) ==
  Append(fs, [index |-> Len(fs),
              leadingStaveSignature |-> leadingStaveSignature,
              measureEntries |-> entries1,
              beginningBarStyle |-> beginningBarStyle,
              endBarStyle |-> endBarStyle])

\* fragments.length === 0 ? beginningBarStyle : 'none'
BeginningBarStyleOf(fs) == IF Len(fs) = 0 THEN barStyles.beginning ELSE "none"

\* mutant: a change splits the fragment whether it holds entries or not
SplitsAtAlways(kind, current) == kind \in {"changed", "metronome"}

\* the tests that close the current fragment in front of an entry
SplitsAt(kind, current) == kind \in {"changed", "metronome"} /\ Len(current) > 0

\* mutant: the entries of the closed fragment stay in the current fragment
CurrentAfterSplitKept(current) == current

\* currentMeasureEntries = []
CurrentAfterSplit(current) == <<>>

\* mutant: a clef change anywhere in the next measure counts
HasClefChangeAnyEntry ==
  /\ nextSignature.exists
  /\ nextSignature.clef
  /\ nextSignature.measureOffset = 1

\* hasClefChangeAtMeasureBoundary
HasClefChangeAtMeasureBoundary ==
  /\ nextSignature.exists
  /\ nextSignature.clef
  /\ nextSignature.measureOffset = 1
  /\ nextSignature.measureEntryIndex = 0

\* one iteration of the for loop of getFragments
GetFragmentsStep ==
  /\ gpc = "loop"
  /\ measureEntryIndex < Len(measureEntries)
  /\ LET i == measureEntryIndex + 1
         kind == measureEntries[i]
         isLastMeasureEntry == i = Len(measureEntries)
         split == SplitsAt(kind, currentMeasureEntries)
         fs1 == IF split
                  THEN AddFragment(measureFragments, staveSignature, currentMeasureEntries,
                                   BeginningBarStyleOf(measureFragments), "none")
                  ELSE measureFragments
         sig1 == IF kind \in {"signature", "changed"} THEN i ELSE staveSignature
         cur1 == Append(IF split THEN CurrentAfterSplit(currentMeasureEntries)
                                 ELSE currentMeasureEntries, i)
         fs2 == IF ~isLastMeasureEntry THEN fs1
                ELSE IF HasClefChangeAtMeasureBoundary
                  THEN AddFragment(
                         AddFragment(fs1, sig1, cur1, BeginningBarStyleOf(fs1), "none"),
                         NextSignatureEntry, <<NextSignatureEntry>>, "none", barStyles.end)
                  ELSE AddFragment(fs1, sig1, cur1, BeginningBarStyleOf(fs1), barStyles.end)
     IN /\ measureFragments' = fs2
        /\ staveSignature' = sig1
        /\ currentMeasureEntries' = cur1
  /\ measureEntryIndex' = measureEntryIndex + 1
  /\ UNCHANGED <<gpc, measureEntries, nextSignature, barStyles>>
  /\ MeasureFrame

\* return fragments
GetFragmentsReturn ==
  /\ gpc = "loop"
  /\ measureEntryIndex >= Len(measureEntries)
  /\ gpc' = "done"
  /\ UNCHANGED <<measureEntries, nextSignature, barStyles, measureEntryIndex,
                 staveSignature, currentMeasureEntries, measureFragments>>
  /\ MeasureFrame

NextFragments ==
  \/ GetFragmentsStep
  \/ GetFragmentsReturn

----------------------------------------------------------------------------
(* System.render and Measure.render: the x positions of measures and fragments *)

\* the most measures of a system of the model
MaxMeasures == 2

\* the widths MeasureFragment.render returns in the model
FragmentWidths == {100, 250}
SystemXs == {0, 10}

InitSystem ==
  /\ spc = "loop"
  /\ systemMeasures \in SeqsUpTo(SeqsUpTo(FragmentWidths, MaxFragments), MaxMeasures)
  /\ systemX \in SystemXs
  /\ systemMeasureIndex = 0
  /\ renderX = systemX
  /\ measureRenderings = <<>>

\* mutant: the next fragment or measure is placed where this one was placed
NextXKept(x, w) == x

\* x += rendering.width
NextX(x, w) == x + w

\* Measure.render, the loop over the fragments: the renderings with the x each
\* fragment was rendered at
RECURSIVE RenderFragments(_, _)
RenderFragments(x, widths) ==
  IF widths = <<>> THEN <<>>
  ELSE <<[x |-> x, width |-> widths[1]]>>
         \o RenderFragments(NextX(x, widths[1]), Tail(widths))

\* Measure.render, the loop over the fragments: width += fragmentRendering.width
MeasureRenderWidth(widths) == SumSeq(widths)

\* Measure.render
MeasureRender(x, widths) ==
  [x |-> x, fragments |-> RenderFragments(x, widths), width |-> MeasureRenderWidth(widths)]

\* one iteration of the loop of System.render
RenderMeasure ==
  /\ spc = "loop"
  /\ systemMeasureIndex < Len(systemMeasures)
  /\ LET measureRendering == MeasureRender(renderX, systemMeasures[systemMeasureIndex + 1])
     IN /\ measureRenderings' = Append(measureRenderings, measureRendering)
        /\ renderX' = NextX(renderX, measureRendering.width)
  /\ systemMeasureIndex' = systemMeasureIndex + 1
  /\ UNCHANGED <<spc, systemMeasures, systemX>>
  /\ SystemFrame

\* the return of System.render
SystemRenderReturn ==
  /\ spc = "loop"
  /\ systemMeasureIndex >= Len(systemMeasures)
  /\ spc' = "done"
  /\ UNCHANGED <<systemMeasures, systemX, systemMeasureIndex, renderX, measureRenderings>>
  /\ SystemFrame

NextSystem ==
  \/ RenderMeasure
  \/ SystemRenderReturn

----------------------------------------------------------------------------
(* The active accidentals of MeasureContext *)

Pitches == {"C", "F"}
Octaves == {4, 5}
AccidentalCodes == {"#", "b"}

\* no accidental: the null of getActiveAccidental, and a key the record lacks
NoAccidental == ""

\* the field initialiser of MeasureContext: accidentals = {}
NewAccidentals == [p \in PartIds |-> [pitch \in Pitches |-> [o \in Octaves |-> NoAccidental]]]

InitAccidentals == accidentals = NewAccidentals /\ accLast = "new" /\ accEarlier = FALSE

\* new MeasureContext(system, index)
NewMeasureContext ==
  /\ accidentals' = NewAccidentals
  /\ accLast' = "new"
  /\ accEarlier' = (accEarlier \/ accidentals # NewAccidentals)
  /\ AccFrame

\* MeasureContext.getActiveAccidental
getActiveAccidental(partId, pitch, octave) == accidentals[partId][pitch][octave]

\* mutant: the accidental is kept per pitch, for all its octaves
WithAccidentalAllOctaves(record, partId, pitch, octave, accidental) ==
  [record EXCEPT ![partId][pitch] = [o \in Octaves |-> accidental]]

\* the three assignments of setActiveAccidental on the record
WithAccidental(record, partId, pitch, octave, accidental) ==
  [record EXCEPT ![partId][pitch][octave] = accidental]

\* MeasureContext.setActiveAccidental
setActiveAccidental(partId, pitch, octave, accidental) ==
  /\ accidentals' = WithAccidental(accidentals, partId, pitch, octave, accidental)
  /\ accLast' = "set"
  /\ UNCHANGED accEarlier
  /\ AccFrame

NextAccidentals ==
  \/ NewMeasureContext
  \/ \E partId \in PartIds, pitch \in Pitches, octave \in Octaves,
        accidental \in AccidentalCodes :
       setActiveAccidental(partId, pitch, octave, accidental)

IdleAccidentals == accidentals = NewAccidentals /\ accLast = "none" /\ accEarlier = FALSE

----------------------------------------------------------------------------
(* Voice.parse: the entries of a parsed voice *)

\* the most events a voice holds in a run of the model
MaxEvents == 3

EventTypes == {"note", "rest"}

\* the multi-rest registries parse is called under: one count of one part, as a
\* single incrementMultiRestCount leaves it
ParseRegistries ==
  {[p \in PartIds |-> IF p = q THEN <<[k |-> key, v |-> c]>> ELSE <<>>] :
     q \in PartIds, key \in StaveKeys, c \in 0..MaxCount}

InitParse ==
  /\ ppc = "parse"
  /\ voiceEvents \in SeqsUpTo(EventTypes, MaxEvents)
  /\ voiceOf \in [part : PartIds, stave : StaveNumbers]
  /\ parseIndex = 0 /\ parsedEntries = <<>> /\ parsedBeams = <<>>
  /\ multiRestCounts \in ParseRegistries
  /\ mrTrack = NoTrack /\ mrLast = "incrementMultiRestCount"

\* VoiceContext.getMultiRestCount of the context parse creates: the count of the
\* stave of the part, handed up the chain to ScoreContext
VoiceMultiRestCount == getMultiRestCount(voiceOf.part, voiceOf.stave)

\* the entry that Rest.whole(time) parses to
WholeRestEntry == [type |-> "rest", whole |-> TRUE, event |-> 0]

\* the entry the note or rest of the event at index i parses to
EventEntry(i) == [type |-> voiceEvents[i], whole |-> FALSE, event |-> i]

\* mutant: a count of 1 is parsed as the voice's own events
IsMultiRestFromTwo(count) == count > 1

\* the test of parse on the multi-rest count
IsMultiRest(count) == count > 0

\* Voice.parse up to its return or to the call of parseEntries
VoiceParse ==
  /\ ppc = "parse"
  /\ IF IsMultiRest(VoiceMultiRestCount)
       THEN /\ parsedEntries' = <<WholeRestEntry>>
            /\ parsedBeams' = <<>>
            /\ ppc' = "done"
            /\ UNCHANGED parseIndex
       ELSE /\ parseIndex' = 1
            /\ ppc' = "entries"
            /\ UNCHANGED <<parsedEntries, parsedBeams>>
  /\ UNCHANGED <<voiceEvents, voiceOf>>
  /\ ParseFrame

\* one turn of the for loop of parseEntries
ParseEntry ==
  /\ ppc = "entries"
  /\ parseIndex <= Len(voiceEvents)
  /\ parsedEntries' = Append(parsedEntries, EventEntry(parseIndex))
  /\ parseIndex' = parseIndex + 1
  /\ UNCHANGED <<ppc, voiceEvents, voiceOf, parsedBeams>>
  /\ ParseFrame

\* the return of parseEntries and of parse
ParseEntriesReturn ==
  /\ ppc = "entries"
  /\ parseIndex > Len(voiceEvents)
  /\ parsedBeams' = <<>>
  /\ ppc' = "done"
  /\ UNCHANGED <<voiceEvents, voiceOf, parseIndex, parsedEntries>>
  /\ ParseFrame

NextParse ==
  \/ VoiceParse
  \/ ParseEntry
  \/ ParseEntriesReturn

IdleParse ==
  /\ ppc = "idle" /\ voiceEvents = <<>> /\ voiceOf = [part |-> "P1", stave |-> 1]
  /\ parseIndex = 0 /\ parsedEntries = <<>> /\ parsedBeams = <<>>

----------------------------------------------------------------------------
(* MeasureFragment.getMinRequiredWidth and getParts *)

\* the most voices the chorus of a stave renders in a run of the model
MaxVoicesPerStave == 1

\* the entry of a stave: a Chorus with its voices, or another kind of entry
StaveEntries ==
  {[chorus |-> FALSE, voices |-> 0]}
    \cup {[chorus |-> TRUE, voices |-> n] : n \in 0..MaxVoicesPerStave}

\* the part ids of a fragment: no part id twice
FragmentPartIds == {<<>>, <<"P1">>, <<"P2">>, <<"P1", "P2">>, <<"P2", "P1">>}

\* what the formatter and the spanners answer, and the configured VOICE_PADDING
FormatterWidths == {50, 120}
SpannerPaddings == {0, 10}
VoicePaddings == {20}

InitMinWidth ==
  /\ mpc = "parts"
  /\ mf \in [partIds : FragmentPartIds,
             staveSignatures : SUBSET PartIds,
             beginningBarStyles : SUBSET PartIds,
             endBarStyles : SUBSET PartIds,
             entry : [PartIds -> StaveEntries],
             formatterWidth : FormatterWidths,
             spannerPadding : SpannerPaddings,
             voicePadding : VoicePaddings]
  /\ mfIndex = 1 /\ mfParts = <<>> /\ vfVoices = 0 /\ mfWidth = 0

\* mutant: a part is built whatever entries it lacks
GetPartsNeverThrows(partId) == FALSE

\* getParts: the part of the part id cannot be built
GetPartsThrows(partId) ==
  \/ partId \notin mf.staveSignatures
  \/ partId \notin mf.beginningBarStyles
  \/ partId \notin mf.endBarStyles

\* one turn of the map of getParts
GetPartsStep ==
  /\ mpc = "parts"
  /\ mfIndex <= Len(mf.partIds)
  /\ IF GetPartsThrows(mf.partIds[mfIndex])
       THEN mpc' = "threw" /\ UNCHANGED <<mfParts, mfIndex>>
       ELSE /\ mfParts' = Append(mfParts, mf.partIds[mfIndex])
            /\ mfIndex' = mfIndex + 1
            /\ UNCHANGED mpc
  /\ UNCHANGED <<mf, vfVoices, mfWidth, ensVars>>
  /\ WidthFrame

\* getParts returns: the staves of the parts are looped over
GetPartsReturn ==
  /\ mpc = "parts"
  /\ mfIndex > Len(mf.partIds)
  /\ mpc' = "staves"
  /\ mfIndex' = 1
  /\ UNCHANGED <<mf, mfParts, vfVoices, mfWidth, ensVars>>
  /\ WidthFrame

\* the voices one stave adds to vfVoices
StaveVoices(entry) == IF entry.chorus THEN entry.voices ELSE 0

\* one turn of the loop over the staves
MinWidthStaveStep ==
  /\ mpc = "staves"
  /\ mfIndex <= Len(mfParts)
  /\ vfVoices' = vfVoices + StaveVoices(mf.entry[mfParts[mfIndex]])
  /\ mfIndex' = mfIndex + 1
  /\ UNCHANGED <<mpc, mf, mfParts, mfWidth, ensVars>>
  /\ WidthFrame

\* the value getMinRequiredWidth returns for the voices collected
MinWidthOf(voices) ==
  IF voices = 0 THEN 0
  ELSE mf.formatterWidth + mf.spannerPadding + mf.voicePadding

MinWidthReturn ==
  /\ mpc = "staves"
  /\ mfIndex > Len(mfParts)
  /\ mfWidth' = MinWidthOf(vfVoices)
  /\ mpc' = "done"
  /\ UNCHANGED <<mf, mfIndex, mfParts, vfVoices, ensVars>>
  /\ WidthFrame

IdleMinWidth ==
  /\ mpc = "idle"
  /\ mf = [partIds |-> <<>>, staveSignatures |-> {}, beginningBarStyles |-> {},
           endBarStyles |-> {}, entry |-> [p \in PartIds |-> [chorus |-> FALSE, voices |-> 0]],
           formatterWidth |-> 50, spannerPadding |-> 0, voicePadding |-> 20]
  /\ mfIndex = 0 /\ mfParts = <<>> /\ vfVoices = 0 /\ mfWidth = 0

----------------------------------------------------------------------------
(* Ensemble.format: the width of the voices *)

BASE_VOICE_WIDTH == 80
CURVE_EXTRA_WIDTH == 20
TUPLET_EXTRA_WIDTH == 15

\* the configured BASE_MULTI_REST_MEASURE_WIDTH
MultiRestMeasureWidths == {150}

\* the fragments of the measure
FragmentCounts == {1, 2}

\* the most staves of an ensemble in a run of the model
MaxStaves == 2

\* an ensemble: each stave with the number of its voices that have tickables; the
\* tuplets and curves belong to voices
Ensembles ==
  {e \in [multiRestCount : 0..1, fragmentCount : FragmentCounts,
          multiRestWidth : MultiRestMeasureWidths,
          staves : SeqsUpTo(0..MaxVoicesPerStave, MaxStaves),
          formatterWidth : FormatterWidths, tuplets : 0..1, curves : {0, 2}] :
     SumSeq(e.staves) = 0 => (e.tuplets = 0 /\ e.curves = 0)}

InitEnsemble == epc = "format" /\ ensemble \in Ensembles /\ ensVoiceWidth = 0

\* Ensemble.getMinRequiredVoiceWidth: the largest formatter width of the staves
getMinRequiredVoiceWidth(e) ==
  IF SumSeq(e.staves) = 0 THEN 0 ELSE e.formatterWidth

\* Ensemble.getMinRequiredStaveWidth
getMinRequiredStaveWidth(e) ==
  BASE_VOICE_WIDTH \div e.fragmentCount + getMinRequiredVoiceWidth(e)

\* Ensemble.getCurveExtraWidth
getCurveExtraWidth(e) == IF e.curves <= 1 THEN 0 ELSE e.curves * CURVE_EXTRA_WIDTH

\* Ensemble.getTupletExtraWidth
getTupletExtraWidth(e) == e.tuplets * TUPLET_EXTRA_WIDTH

\* Ensemble.getVoiceWidth
getVoiceWidth(e) ==
  (IF e.multiRestCount > 0 THEN e.multiRestWidth ELSE getMinRequiredStaveWidth(e))
    + getTupletExtraWidth(e) + getCurveExtraWidth(e)

\* Ensemble.format with no width given: the stave width starts from getVoiceWidth
EnsembleFormat ==
  /\ epc = "format"
  /\ ensVoiceWidth' = getVoiceWidth(ensemble)
  /\ epc' = "done"
  /\ UNCHANGED <<ensemble, mfVars>>
  /\ WidthFrame

IdleEnsemble ==
  /\ epc = "idle" /\ ensVoiceWidth = 0
  /\ ensemble = [multiRestCount |-> 0, fragmentCount |-> 1, multiRestWidth |-> 150,
                 staves |-> <<>>, formatterWidth |-> 50, tuplets |-> 0, curves |-> 0]

IdleWidth == IdleMinWidth /\ IdleEnsemble

NextWidth ==
  \/ GetPartsStep
  \/ GetPartsReturn
  \/ MinWidthStaveStep
  \/ MinWidthReturn
  \/ EnsembleFormat

----------------------------------------------------------------------------
(* Vexml.render: beginning modifiers and end barlines of the lines *)

\* the most lines, systems of a line and staves of a system in a run of the
\* modifier pass
MaxModifierLines == 2
MaxLineSystems == 2
MaxSystemStaves == 2

\* the most lines in a run of the barline pass
MaxBarLines == 3

\* undefined: a stave without a time signature or clef, a line without an end bar
Undefined == ""

\* what getTimeSignature and getClef of a stave return
StaveModifiers ==
  {[timeSignature |-> Undefined, clef |-> Undefined],
   [timeSignature |-> "3/4", clef |-> Undefined],
   [timeSignature |-> Undefined, clef |-> "bass"],
   [timeSignature |-> "4/4", clef |-> "treble"]}

EndBarTypes == {Undefined, "regular", "light-heavy", "repeat-end"}

NonEmptySeqsUpTo(S, n) == SeqsUpTo(S, n) \ {<<>>}

\* the lines of a score for the modifier pass: every system has the same number
\* of staves, no line is empty, no line has come with an end bar type
ModifierLines ==
  UNION {SeqsUpTo([systems : NonEmptySeqsUpTo([1..n -> StaveModifiers], MaxLineSystems),
                   endBarType : {Undefined}], MaxModifierLines) :
           n \in 1..MaxSystemStaves}

\* the lines of a score for the barline pass: one system of one stave each
BarLines ==
  SeqsUpTo([systems : {<<s>> : s \in [1..1 -> StaveModifiers]},
            endBarType : EndBarTypes], MaxBarLines)

InitPasses(inputs) ==
  /\ rpc = "modifiers"
  /\ renderLines \in inputs
  /\ lineIndex = 1
  /\ timeSignature = Undefined /\ clef = Undefined
  /\ beginningModifiers = <<>>
  /\ endBarTypes = [k \in 1..Len(renderLines) |-> renderLines[k].endBarType]

\* a ?? b
Coalesce(a, b) == IF a # Undefined THEN a ELSE b

\* the loop over the staves of the systems: the modifiers after the staves
RECURSIVE LatestModifiers(_, _)
LatestModifiers(staves, latest) ==
  IF staves = <<>> THEN latest
  ELSE LatestModifiers(Tail(staves),
         [timeSignature |-> Coalesce(staves[1].timeSignature, latest.timeSignature),
          clef |-> Coalesce(staves[1].clef, latest.clef)])

\* the staves the loops over line.getSystems() and system.getStaves() visit
LineStaves(line) == Flatten(line.systems)

\* one turn of the loop of the modifier pass: a line
ModifiersLine ==
  /\ rpc = "modifiers"
  /\ lineIndex <= Len(renderLines)
  /\ LET latest == LatestModifiers(LineStaves(renderLines[lineIndex]),
                     [timeSignature |-> timeSignature, clef |-> clef])
     IN /\ timeSignature' = latest.timeSignature
        /\ clef' = latest.clef
        /\ beginningModifiers' = Append(beginningModifiers, latest)
  /\ lineIndex' = lineIndex + 1
  /\ UNCHANGED <<rpc, renderLines, endBarTypes>>
  /\ PassFrame

ModifiersDone ==
  /\ rpc = "modifiers"
  /\ lineIndex > Len(renderLines)
  /\ rpc' = "barlines"
  /\ lineIndex' = 1
  /\ UNCHANGED <<renderLines, timeSignature, clef, beginningModifiers, endBarTypes>>
  /\ PassFrame

\* Line.hasEndBarType
hasEndBarType(endBarType) == endBarType # Undefined

\* mutant: every line is given the regular barline
NeedsEndBarTypeAlways(endBarType) == TRUE

\* the test of the barline pass
NeedsEndBarType(endBarType) == ~hasEndBarType(endBarType)

\* one turn of the loop of the barline pass: a line
BarlinesLine ==
  /\ rpc = "barlines"
  /\ lineIndex <= Len(renderLines)
  /\ endBarTypes' = IF NeedsEndBarType(endBarTypes[lineIndex])
                      THEN [endBarTypes EXCEPT ![lineIndex] = "regular"]
                      ELSE endBarTypes
  /\ lineIndex' = lineIndex + 1
  /\ UNCHANGED <<rpc, renderLines, timeSignature, clef, beginningModifiers>>
  /\ PassFrame

BarlinesDone ==
  /\ rpc = "barlines"
  /\ lineIndex > Len(renderLines)
  /\ rpc' = "done"
  /\ UNCHANGED <<renderLines, lineIndex, timeSignature, clef, beginningModifiers,
                 endBarTypes>>
  /\ PassFrame

NextPasses ==
  \/ ModifiersLine
  \/ ModifiersDone
  \/ BarlinesLine
  \/ BarlinesDone

IdlePasses ==
  /\ rpc = "idle" /\ renderLines = <<>> /\ lineIndex = 0
  /\ timeSignature = Undefined /\ clef = Undefined
  /\ beginningModifiers = <<>> /\ endBarTypes = <<>>

----------------------------------------------------------------------------
(* MeasureFragment.getMinRequiredWidth: the stave modifiers that changed *)

\* the most staves of a fragment in a run of the model
MaxFragmentStaves == 2

\* the stave modifiers, as getChangedStaveModifiers names them
StaveModifierNames == {"clefType", "keySignature", "timeSignature"}

\* the staves of a fragment and the staves a previous fragment differs in
ModifiedStaves ==
  [clefType : {"treble", "bass"}, keySignature : {"C", "G"},
   timeSignature : {"4/4", "3/4"}]
PreviousStaves ==
  {[clefType |-> "treble", keySignature |-> "C", timeSignature |-> "4/4"],
   [clefType |-> "bass", keySignature |-> "G", timeSignature |-> "3/4"]}

\* the width each modifier takes on a stave, and the minimum justify widths
ModifierWidths == [clefType |-> 30, keySignature |-> 20, timeSignature |-> 25]
MinJustifyWidths == {100, 250}

SystemIds == {1, 2}

\* no previous fragment: null
NoFragment == [exists |-> FALSE, systemId |-> 0, staves |-> <<>>]

\* a fragment and the previous fragment handed to getMinRequiredWidth: the
\* fragments of a score have the same number of staves, at least one
InitChanges ==
  /\ cpc = "call"
  /\ \E n \in 1..MaxFragmentStaves :
       /\ fragment \in [systemId : SystemIds, staves : [1..n -> ModifiedStaves],
                        minJustifyWidth : MinJustifyWidths]
       /\ previousMeasureFragment \in
            {NoFragment} \cup [exists : {TRUE}, systemId : SystemIds,
                               staves : [1..n -> PreviousStaves]]
  /\ changedModifiers = {} /\ changedMinRequiredWidth = 0

\* Stave.getModifierChanges
getModifierChanges(stave1, stave2) ==
  {m \in StaveModifierNames : stave1[m] # stave2[m]}

\* mutant: every fragment that has a previous one is compared with it
IsFirstWithoutPrevious(previous, systemId) == ~previous.exists

\* the two early returns of getChangedStaveModifiers
IsFirstOfSystem(previous, systemId) ==
  ~previous.exists \/ systemId # previous.systemId

\* MeasureFragment.getChangedStaveModifiers
getChangedStaveModifiers(previous) ==
  IF IsFirstOfSystem(previous, fragment.systemId)
    THEN {"clefType", "keySignature", "timeSignature"}
  ELSE UNION {getModifierChanges(fragment.staves[index], previous.staves[index]) :
                index \in 1..Len(fragment.staves)}

\* Stave.getModifiersWidth
getModifiersWidth(modifiers) ==
  (IF "clefType" \in modifiers THEN ModifierWidths.clefType ELSE 0)
    + (IF "keySignature" \in modifiers THEN ModifierWidths.keySignature ELSE 0)
    + (IF "timeSignature" \in modifiers THEN ModifierWidths.timeSignature ELSE 0)

\* util.max of the numbers of a non-empty sequence
SeqMax(s) == CHOOSE x \in Range(s) : \A y \in Range(s) : y <= x

\* MeasureFragment.getStaveModifiersWidth
getStaveModifiersWidth(staveModifiers) ==
  SeqMax([index \in 1..Len(fragment.staves) |-> getModifiersWidth(staveModifiers)])

\* MeasureFragment.getMinRequiredWidth(previousMeasureFragment)
GetMinRequiredWidth ==
  /\ cpc = "call"
  /\ changedModifiers' = getChangedStaveModifiers(previousMeasureFragment)
  /\ changedMinRequiredWidth' =
       fragment.minJustifyWidth
         + getStaveModifiersWidth(getChangedStaveModifiers(previousMeasureFragment))
  /\ cpc' = "done"
  /\ UNCHANGED <<fragment, previousMeasureFragment>>
  /\ ChangeFrame

NextChanges == GetMinRequiredWidth

IdleChanges ==
  /\ cpc = "idle"
  /\ fragment = [systemId |-> 0, staves |-> <<>>, minJustifyWidth |-> 0]
  /\ previousMeasureFragment = NoFragment
  /\ changedModifiers = {} /\ changedMinRequiredWidth = 0

----------------------------------------------------------------------------
(* Stave.parse of the parser: the voices of a stave *)

\* the most events of a stave of the model
MaxStaveEvents == 3

\* an event that is not a note carries no voice id
NoVoice == ""

\* the events of a stave: notes of a voice, and events of another type
StaveEventKinds ==
  [type : {"note"}, voiceId : VoiceIds] \cup [type : {"signature"}, voiceId : {NoVoice}]

InitStave ==
  /\ stavePc = "parse"
  /\ staveEvents \in SeqsUpTo(StaveEventKinds, MaxStaveEvents)
  /\ staveVoiceIds = <<>>
  /\ staveVoices = <<>>

\* Stave.getVoiceEvents: the indexes of the events of type 'note', in order
getVoiceEvents ==
  SelectSeq([i \in 1..Len(staveEvents) |-> i], LAMBDA i : staveEvents[i].type = "note")

\* util.unique: the distinct values of a sequence, in order of first appearance
RECURSIVE unique(_)
unique(s) ==
  IF s = <<>> THEN <<>>
  ELSE LET init == unique(SubSeq(s, 1, Len(s) - 1))
           last == s[Len(s)]
       IN IF \E i \in 1..Len(init) : init[i] = last THEN init ELSE Append(init, last)

\* util.assert: the call throws when the condition is false
assertThrows(condition) == ~condition

\* the events getVoices hands to the Voice of a voice id: voiceEvents, all of them
VoiceConstructorEvents(voiceId) == getVoiceEvents

\* Stave.getVoices up to the map over the distinct voice ids
GetVoices ==
  /\ stavePc = "parse"
  /\ staveVoiceIds' =
       unique([k \in 1..Len(getVoiceEvents) |-> staveEvents[getVoiceEvents[k]].voiceId])
  /\ stavePc' = "voices"
  /\ UNCHANGED <<staveEvents, staveVoices>>
  /\ StaveFrame

\* new Voice(voiceId, signature, voiceEvents): the constructor asserts that every
\* event it is given carries the id of the voice
NewVoice ==
  /\ stavePc = "voices"
  /\ Len(staveVoices) < Len(staveVoiceIds)
  /\ LET id == staveVoiceIds[Len(staveVoices) + 1]
         events == VoiceConstructorEvents(id)
     IN IF assertThrows(\A k \in 1..Len(events) : staveEvents[events[k]].voiceId = id)
          THEN /\ stavePc' = "threw"
               /\ UNCHANGED staveVoices
          ELSE /\ staveVoices' = Append(staveVoices, [id |-> id, events |-> events])
               /\ UNCHANGED stavePc
  /\ UNCHANGED <<staveEvents, staveVoiceIds>>
  /\ StaveFrame

\* the return of getVoices: every voice has been constructed
GetVoicesReturn ==
  /\ stavePc = "voices"
  /\ Len(staveVoices) = Len(staveVoiceIds)
  /\ stavePc' = "done"
  /\ UNCHANGED <<staveEvents, staveVoiceIds, staveVoices>>
  /\ StaveFrame

NextStave ==
  \/ GetVoices
  \/ NewVoice
  \/ GetVoicesReturn

IdleStave ==
  /\ stavePc = "idle" /\ staveEvents = <<>> /\ staveVoiceIds = <<>> /\ staveVoices = <<>>

----------------------------------------------------------------------------
(* Voice.createVoiceEntry of the renderer: the duration denominator of a note *)

\* the longest duration of a note of the model, in divisions
MaxDivisions == 8

\* the divisions a quarter note may have
QuarterDivisions == {1, 2, 3, 4, 8, 16, 32, 64, 128, 256}

\* the <type> of a note; NoType is the omitted type
NoType == ""
NoteTypes == {NoType, "16th", "whole", "long"}

\* no denominator has been computed
NoDenominator == "none"

InitDuration ==
  /\ dpc = "create"
  /\ durNote \in [type : NoteTypes, divisions : 1..MaxDivisions, perQuarter : QuarterDivisions]
  /\ durationDenominator = NoDenominator

\* Division.toBeats: the duration in quarter-note beats
toBeats(divisions) == RNorm(divisions.divisions, divisions.perQuarter)

\* Voice.toDurationDenominator: the denominator of a note type, null without one
toDurationDenominator(noteType) ==
  CASE noteType = "1024th" -> "1024"
    [] noteType = "512th" -> "512"
    [] noteType = "256th" -> "256"
    [] noteType = "128th" -> "128"
    [] noteType = "64th" -> "64"
    [] noteType = "32nd" -> "32"
    [] noteType = "16th" -> "16"
    [] noteType = "eighth" -> "8"
    [] noteType = "quarter" -> "4"
    [] noteType = "half" -> "2"
    [] noteType = "whole" -> "1"
    [] noteType = "breve" -> "1/2"
    [] noteType = "long" -> "1/2"
    [] OTHER -> NoDenominator

\* Voice.calculateDurationDenominator: the switch over divisions.toBeats()
calculateDurationDenominator(divisions) ==
  LET beats == toBeats(divisions)
  IN CASE beats = RInt(4) -> "1"
       [] beats = RInt(2) -> "2"
       [] beats = RInt(1) -> "4"
       [] beats = RNorm(1, 2) -> "8"
       [] beats = RNorm(1, 8) -> "32"
       [] beats = RNorm(1, 16) -> "64"
       [] beats = RNorm(1, 32) -> "128"
       [] beats = RNorm(1, 64) -> "256"
       [] beats = RNorm(1, 128) -> "512"
       [] beats = RNorm(1, 256) -> "1024"
       [] OTHER -> ""

\* createVoiceEntry up to const durationDenominator: the denominator of the type,
\* and without one the denominator calculated from the duration
CreateVoiceEntry ==
  /\ dpc = "create"
  /\ durationDenominator' =
       IF toDurationDenominator(durNote.type) # NoDenominator
         THEN toDurationDenominator(durNote.type)
         ELSE calculateDurationDenominator(durNote)
  /\ dpc' = "done"
  /\ UNCHANGED durNote
  /\ DurationFrame

NextDuration == CreateVoiceEntry

IdleDuration ==
  /\ dpc = "idle"
  /\ durNote = [type |-> NoType, divisions |-> 0, perQuarter |-> 1]
  /\ durationDenominator = NoDenominator

----------------------------------------------------------------------------
(* Key of the parser: isEqual and isEquivalent *)

\* the largest count of fifths, up or down, of a key of the model
MaxKeyFifths == 1

KeyFifths == (0 - MaxKeyFifths)..MaxKeyFifths
KeyModes == {"none", "major"}

\* previousKey: null, or a key of which the fifths and the mode are read
NoPreviousKey == [exists |-> FALSE, fifths |-> 0, mode |-> "none"]
PreviousKeys == {NoPreviousKey} \cup [exists : {TRUE}, fifths : KeyFifths, mode : KeyModes]

\* new Key(partId, staveNumber, fifths, previousKey, mode)
Keys == [partId : PartIds, staveNumber : StaveNumbers, fifths : KeyFifths,
         previousKey : PreviousKeys, mode : KeyModes]

\* Key.default(partId, staveNumber)
KeyDefault(partId, staveNumber) ==
  [partId |-> partId, staveNumber |-> staveNumber, fifths |-> 0,
   previousKey |-> NoPreviousKey, mode |-> "none"]

NoKeyCall == [method |-> "none", result |-> FALSE]

InitKey ==
  /\ kpc = "call"
  /\ keyThis \in Keys
  /\ keyArg \in Keys
  /\ keyCall = NoKeyCall

\* Key.arePreviousKeySignaturesEquivalent: false when either previous key is null
arePreviousKeySignaturesEquivalent(this, previousKey) ==
  IF ~this.previousKey.exists \/ ~previousKey.exists
    THEN FALSE
    ELSE this.previousKey.fifths = previousKey.fifths
           /\ this.previousKey.mode = previousKey.mode

\* Key.isEquivalent
isEquivalent(this, key) ==
  /\ this.fifths = key.fifths
  /\ this.mode = key.mode
  /\ arePreviousKeySignaturesEquivalent(this, key.previousKey)

\* Key.isEqual
isEqual(this, key) ==
  /\ this.partId = key.partId
  /\ this.staveNumber = key.staveNumber
  /\ isEquivalent(this, key)

\* a call of keyThis.isEqual(keyArg)
IsEqualCall ==
  /\ kpc = "call"
  /\ keyCall' = [method |-> "isEqual", result |-> isEqual(keyThis, keyArg)]
  /\ kpc' = "done"
  /\ UNCHANGED <<keyThis, keyArg>>
  /\ KeyFrame

\* a call of keyThis.isEquivalent(keyArg)
IsEquivalentCall ==
  /\ kpc = "call"
  /\ keyCall' = [method |-> "isEquivalent", result |-> isEquivalent(keyThis, keyArg)]
  /\ kpc' = "done"
  /\ UNCHANGED <<keyThis, keyArg>>
  /\ KeyFrame

NextKey ==
  \/ IsEqualCall
  \/ IsEquivalentCall

IdleKey ==
  /\ kpc = "idle"
  /\ keyThis = KeyDefault("P1", 1) /\ keyArg = KeyDefault("P1", 1)
  /\ keyCall = NoKeyCall

----------------------------------------------------------------------------
(* Key of the MusicXML wrappers: the key signature of a fifths count *)

\* the largest fifths count, up or down, of a <key> of the model
MaxFifthsCount == 9

\* a child of the element: missing, or there with its content
ChildFifths ==
  {[present |-> FALSE, value |-> 0]}
    \cup [present : {TRUE}, value : (0 - MaxFifthsCount)..MaxFifthsCount]
ChildModes ==
  {[present |-> FALSE, value |-> "none"]} \cup [present : {TRUE}, value : {"major", "minor"}]

NoKeyReturn == [method |-> "none", name |-> "", count |-> 0]

InitKeySignature ==
  /\ qpc = "call"
  /\ keyElement \in [fifths : ChildFifths, mode : ChildModes]
  /\ keyReturn = NoKeyReturn

\* Key.getFifthsCount: the content of <fifths>, 0 without one
getFifthsCount(element) == IF element.fifths.present THEN element.fifths.value ELSE 0

\* Key.getMode: the content of <mode>, 'none' without one
getMode(element) == IF element.mode.present THEN element.mode.value ELSE "none"

\* Key.getKeySignature: the switch over the fifths count
getKeySignature(element) ==
  LET fifthsCount == getFifthsCount(element)
  IN CASE fifthsCount = 1 -> "G"
       [] fifthsCount = 2 -> "D"
       [] fifthsCount = 3 -> "A"
       [] fifthsCount = 4 -> "E"
       [] fifthsCount = 5 -> "B"
       [] fifthsCount = 6 -> "F#"
       [] fifthsCount = 7 -> "C#"
       [] fifthsCount = -1 -> "F"
       [] fifthsCount = -2 -> "Bb"
       [] fifthsCount = -3 -> "Eb"
       [] fifthsCount = -4 -> "Ab"
       [] fifthsCount = -5 -> "Cb"
       [] fifthsCount = -6 -> "Gb"
       [] fifthsCount = -7 -> "Cb"
       [] OTHER -> "C"

\* a call of getKeySignature()
GetKeySignatureCall ==
  /\ qpc = "call"
  /\ keyReturn' = [method |-> "getKeySignature", name |-> getKeySignature(keyElement),
                   count |-> getFifthsCount(keyElement)]
  /\ qpc' = "done"
  /\ UNCHANGED keyElement
  /\ KeySignatureFrame

\* a call of getMode()
GetModeCall ==
  /\ qpc = "call"
  /\ keyReturn' = [method |-> "getMode", name |-> getMode(keyElement), count |-> 0]
  /\ qpc' = "done"
  /\ UNCHANGED keyElement
  /\ KeySignatureFrame

NextKeySignature ==
  \/ GetKeySignatureCall
  \/ GetModeCall

IdleKeySignature ==
  /\ qpc = "idle"
  /\ keyElement = [fifths |-> [present |-> FALSE, value |-> 0],
                   mode |-> [present |-> FALSE, value |-> "none"]]
  /\ keyReturn = NoKeyReturn

----------------------------------------------------------------------------
(* MeasureFragment.extractVfBeams: the beams of a rendered voice *)

\* the most entries of a voice of the model
MaxBeamEntries == 4

\* no <beam> on the note
NoBeamValue == ""
BeamValues == {NoBeamValue, "begin", "continue", "backward hook", "end"}

\* the entries of a voice: notes, chords (a chord has the beam value of
\* getBeamDeterminingNote) and rests
BeamEntryKinds ==
  [type : {"note"}, beamValue : BeamValues]
    \cup [type : {"chord"}, beamValue : {"begin", "end"}]
    \cup [type : {"rest"}, beamValue : {NoBeamValue}]

InitBeams ==
  /\ bpc = "extract"
  /\ beamEntries \in SeqsUpTo(BeamEntryKinds, MaxBeamEntries)
  /\ beamIndex = 1
  /\ vfStemmables = <<>>
  /\ vfBeams = <<>>

\* the stemmables of the voice: the indexes of its notes and chords, in order
Stemmables ==
  SelectSeq([i \in 1..Len(beamEntries) |-> i],
            LAMBDA i : beamEntries[i].type \in {"note", "chord"})

\* mutant: a group that is open at the last stemmable is dropped
OpenGroupDropped(isLast, open) == FALSE

\* the test after the switch: isLast && vfStemmables.length > 0
ClosesOpenGroup(isLast, open) == isLast /\ Len(open) > 0

\* one turn of the for loop of extractVfBeams
ExtractBeamsStep ==
  /\ bpc = "extract"
  /\ beamIndex <= Len(Stemmables)
  /\ LET stemmable == Stemmables[beamIndex]
         isLast == beamIndex = Len(Stemmables)
         beamValue == beamEntries[stemmable].beamValue
         pushed == Append(vfStemmables, stemmable)
         open == CASE beamValue \in {"begin", "continue", "backward hook", "forward hook"} -> pushed
                   [] beamValue = "end" -> <<>>
                   [] OTHER -> vfStemmables
         built == IF beamValue = "end" THEN Append(vfBeams, pushed) ELSE vfBeams
     IN /\ vfStemmables' = open
        /\ vfBeams' = IF ClosesOpenGroup(isLast, open) THEN Append(built, open) ELSE built
  /\ beamIndex' = beamIndex + 1
  /\ UNCHANGED <<bpc, beamEntries>>
  /\ BeamFrame

\* return vfBeams
ExtractBeamsReturn ==
  /\ bpc = "extract"
  /\ beamIndex > Len(Stemmables)
  /\ bpc' = "done"
  /\ UNCHANGED <<beamEntries, beamIndex, vfStemmables, vfBeams>>
  /\ BeamFrame

NextBeams ==
  \/ ExtractBeamsStep
  \/ ExtractBeamsReturn

IdleBeams ==
  /\ bpc = "idle" /\ beamEntries = <<>> /\ beamIndex = 0
  /\ vfStemmables = <<>> /\ vfBeams = <<>>

----------------------------------------------------------------------------
(* Fragment.render: the part label group of a fragment *)

\* the largest system, measure and measure entry index of the model
MaxKeyIndex == 1

\* the most parts of a fragment
MaxFragmentParts == 2

FragmentKeys ==
  [systemIndex : 0..MaxKeyIndex, measureIndex : 0..MaxKeyIndex,
   measureEntryIndex : 0..MaxKeyIndex]

\* Fragment.width: null (no width is forced) or a width
FragmentRenderWidths == {Null, 300, 500}

\* the widths of a part label group rendering
PartLabelWidths == {0, 40}

\* partLabelGroupRender: null
NoPartLabelGroup == [exists |-> FALSE, w |-> 0]

InitFragmentRender ==
  /\ frPc = "render"
  /\ frKey \in FragmentKeys
  /\ frWidth \in FragmentRenderWidths
  /\ frInputs \in [labelWidth : PartLabelWidths, partCount : 1..MaxFragmentParts]
  /\ partLabelGroupRender = NoPartLabelGroup
  /\ partWidths = <<>>

\* the test of renderPartLabelGroup: the first system and the first measure
HasPartLabels(key) ==
  LET isFirstSystem == key.systemIndex = 0
      isFirstMeasure == key.measureIndex = 0
  IN ~(~isFirstSystem \/ ~isFirstMeasure)

\* Fragment.renderPartLabelGroup
RenderPartLabelGroup ==
  /\ frPc = "render"
  /\ partLabelGroupRender' =
       IF HasPartLabels(frKey)
         THEN [exists |-> TRUE, w |-> frInputs.labelWidth]
         ELSE NoPartLabelGroup
  /\ frPc' = "parts"
  /\ UNCHANGED <<frKey, frWidth, frInputs, partWidths>>
  /\ FragmentRenderFrame

\* render after renderPartLabelGroup: if (width) width -= the label width or 0
PartsWidth ==
  IF frWidth # Null /\ frWidth # 0
    THEN frWidth - (IF partLabelGroupRender.exists THEN partLabelGroupRender.w ELSE 0)
    ELSE frWidth

\* Fragment.renderParts and the return of render: every part is given the width
RenderParts ==
  /\ frPc = "parts"
  /\ partWidths' = [partIndex \in 1..frInputs.partCount |-> PartsWidth]
  /\ frPc' = "done"
  /\ UNCHANGED <<frKey, frWidth, frInputs, partLabelGroupRender>>
  /\ FragmentRenderFrame

NextFragmentRender ==
  \/ RenderPartLabelGroup
  \/ RenderParts

IdleFragmentRender ==
  /\ frPc = "idle"
  /\ frKey = [systemIndex |-> 0, measureIndex |-> 0, measureEntryIndex |-> 0]
  /\ frWidth = Null /\ frInputs = [labelWidth |-> 0, partCount |-> 0]
  /\ partLabelGroupRender = NoPartLabelGroup /\ partWidths = <<>>

----------------------------------------------------------------------------
(* Ensemble.format: the rects of a fragment render, drawn or taken from a cache *)

\* the most calls of format on one fragment render in a run of the model
MaxFormatCalls == 2

\* the most parts of a fragment render and the most entries of a voice render
MaxRenderParts == 2
MaxRenderEntries == 2

RectSrcs == {"none", "draw", "cache"}

\* the shapes of a fragment render: its parts, each with one stave of one voice
RenderShapes == [parts : 1..MaxRenderParts, entries : 1..MaxRenderEntries]

\* the outcomes of a draw pass: what the bounding boxes are measured from
DrawSeeds == {1, 2}

\* Rect.empty(), the rect of what has not been formatted
EmptyRect == 0

\* the rect measured for the element at a place of the render
MeasuredRect(seed, level, partIndex, entryIndex) ==
  IF seed = 0 THEN EmptyRect ELSE seed * 1000 + level * 100 + partIndex * 10 + entryIndex

\* a fragment render of a shape, with the rects and excess heights of a draw pass
\* (seed 0: of no pass)
Render(rectSrc, seed, shape) ==
  [rectSrc |-> rectSrc,
   rect |-> MeasuredRect(seed, 1, 0, 0),
   excessHeight |-> seed,
   partRenders |->
     [p \in 1..shape.parts |->
        [rect |-> MeasuredRect(seed, 2, p, 0),
         staveRenders |->
           <<[rect |-> MeasuredRect(seed, 3, p, 0),
              intrinsicRect |-> MeasuredRect(seed, 4, p, 0),
              excessHeight |-> seed,
              voiceRenders |->
                <<[rect |-> MeasuredRect(seed, 5, p, 0),
                   entryRenders |->
                     [n \in 1..shape.entries |->
                        [rect |-> MeasuredRect(seed, 6, p, n)]]]>>]>>]]]

\* cache: null
NoCache == [exists |-> FALSE, render |-> Render("none", 0, [parts |-> 1, entries |-> 1])]

\* the caches a call may be given: none, or a render of the same fragment
Caches(shape) ==
  {NoCache} \cup {[exists |-> TRUE, render |-> Render(src, seed, shape)] :
                    src \in RectSrcs, seed \in DrawSeeds}

\* width, paddingLeft and paddingRight of EnsembleFormatParams; the voice width
\* and the non-voice width the ensemble calculates
FormatWidths == {Null, 400}
FormatPaddings == {0, 10}
VoiceWidths == {130}
NonVoiceWidths == {30}
FormatParams(shape) ==
  [width : FormatWidths, paddingLeft : FormatPaddings, paddingRight : FormatPaddings,
   voiceWidth : VoiceWidths, nonVoiceWidth : NonVoiceWidths, cache : Caches(shape)]

NoFormatParams ==
  [width |-> Null, paddingLeft |-> 0, paddingRight |-> 0, voiceWidth |-> 0,
   nonVoiceWidth |-> 0, cache |-> NoCache]

InitFormat ==
  /\ fragmentRender \in {Render("none", 0, shape) : shape \in RenderShapes}
  /\ fmtParams = NoFormatParams
  /\ fmtStaveWidth = 0
  /\ fmtLast = "none"
  /\ fmtCalls = 0
  /\ fmtReturned = 0

\* the shape of a fragment render
ShapeOf(render) ==
  [parts |-> Len(render.partRenders),
   entries |-> Len(render.partRenders[1].staveRenders[1].voiceRenders[1].entryRenders)]

\* mutant: a render formatted from a cache counts as unformatted
IsUnformattedOrCached(render) == render.rectSrc # "draw"

\* the assertion of format: fragmentRender.rectSrc === 'none'
IsUnformatted(render) == render.rectSrc = "none"

\* the assertion of populateRectsFromCache: cache.rectSrc === 'draw'
IsFromDraw(cache) == cache.rectSrc = "draw"

\* format: the stave width
StaveWidth(params) ==
  (IF params.width # Null /\ params.width # 0
     THEN params.width
     ELSE params.voiceWidth + params.nonVoiceWidth)
    - params.paddingLeft - params.paddingRight

\* Ensemble.populateRectsFromDraw: every rect and excess height is measured after
\* a draw pass, and rectSrc becomes 'draw'
populateRectsFromDraw(render, seed) == Render("draw", seed, ShapeOf(render))

\* Ensemble.populateRectsFromCache after its assertion: rectSrc becomes 'cache',
\* the rects and excess heights are those of the cache at the same index
populateRectsFromCache(render, cache) ==
  [rectSrc |-> "cache",
   rect |-> cache.rect,
   excessHeight |-> cache.excessHeight,
   partRenders |->
     [partIndex \in 1..Len(render.partRenders) |->
        LET partRender == render.partRenders[partIndex]
            cachePartRender == cache.partRenders[partIndex]
        IN [rect |-> cachePartRender.rect,
            staveRenders |->
              [staveIndex \in 1..Len(partRender.staveRenders) |->
                 LET staveRender == partRender.staveRenders[staveIndex]
                     cacheStaveRender == cachePartRender.staveRenders[staveIndex]
                 IN [rect |-> cacheStaveRender.rect,
                     intrinsicRect |-> cacheStaveRender.intrinsicRect,
                     excessHeight |-> cacheStaveRender.excessHeight,
                     voiceRenders |->
                       [voiceIndex \in 1..Len(staveRender.voiceRenders) |->
                          LET voiceRender == staveRender.voiceRenders[voiceIndex]
                              cacheVoiceRender == cacheStaveRender.voiceRenders[voiceIndex]
                          IN [rect |-> cacheVoiceRender.rect,
                              entryRenders |->
                                [entryIndex \in 1..Len(voiceRender.entryRenders) |->
                                   [rect |-> cacheVoiceRender.entryRenders[entryIndex].rect]]]]]]]]]

\* a call of Ensemble.format(fragmentRender, params); the draw pass measures what
\* the seed stands for
EnsembleFormatRender(params, seed) ==
  /\ fmtCalls < MaxFormatCalls
  /\ fmtCalls' = fmtCalls + 1
  /\ fmtParams' = params
  /\ IF assertThrows(IsUnformatted(fragmentRender))
       THEN /\ fmtLast' = "threw"
            /\ UNCHANGED <<fragmentRender, fmtStaveWidth, fmtReturned>>
       ELSE /\ fmtStaveWidth' = StaveWidth(params)
            /\ IF params.cache.exists
                 THEN IF assertThrows(IsFromDraw(params.cache.render))
                        THEN /\ fmtLast' = "threw"
                             /\ UNCHANGED <<fragmentRender, fmtReturned>>
                        ELSE /\ fragmentRender' =
                                  populateRectsFromCache(fragmentRender, params.cache.render)
                             /\ fmtLast' = "returned"
                             /\ fmtReturned' = fmtReturned + 1
                 ELSE /\ fragmentRender' = populateRectsFromDraw(fragmentRender, seed)
                      /\ fmtLast' = "returned"
                      /\ fmtReturned' = fmtReturned + 1
  /\ FormatFrame

FormatCall ==
  \E params \in FormatParams(ShapeOf(fragmentRender)), seed \in DrawSeeds :
    EnsembleFormatRender(params, seed)

NextFormat == FormatCall

IdleFormat ==
  /\ fragmentRender = Render("none", 0, [parts |-> 1, entries |-> 1])
  /\ fmtParams = NoFormatParams
  /\ fmtStaveWidth = 0 /\ fmtLast = "idle" /\ fmtCalls = 0 /\ fmtReturned = 0

----------------------------------------------------------------------------
(* useMusicXML: the MusicXML of a source that may be fetched *)

\* the most renders of the hook in a run of the model
MaxRenders == 3

\* currentSource: null
NoSource == [type |-> "none", url |-> "", musicXML |-> ""]

\* the sources the component may be given: two remote ones and a local one
Sources ==
  [type : {"remote"}, url : {"u1", "u2"}, musicXML : {""}]
    \cup [type : {"local"}, url : {""}, musicXML : {"<local/>"}]

\* error: null
NoError == ""

\* response.text() of a fetch of the url
ResponseText(url) == IF url = "u1" THEN "<u1/>" ELSE "<u2/>"

\* the Error a failed fetch of the url is rejected with
FetchError(url) == IF url = "u1" THEN "failed u1" ELSE "failed u2"

InitHook ==
  /\ currentSource = NoSource
  /\ musicXML = ""
  /\ error = NoError
  /\ inFlight = {}
  /\ nRenders = 0
  /\ hookLoaded = FALSE

\* a render of the component that calls useMusicXML(source): a source that is
\* not the current one becomes current; a remote one is fetched, the MusicXML of
\* a local one is set
UseMusicXML(source) ==
  /\ nRenders < MaxRenders
  /\ nRenders' = nRenders + 1
  /\ IF currentSource # source
       THEN /\ currentSource' = source
            /\ IF source.type = "remote"
                 THEN /\ inFlight' = inFlight \cup {[id |-> nRenders + 1, url |-> source.url]}
                      /\ hookLoaded' = FALSE
                      /\ UNCHANGED musicXML
                 ELSE /\ musicXML' = source.musicXML
                      /\ hookLoaded' = TRUE
                      /\ UNCHANGED inFlight
       ELSE UNCHANGED <<currentSource, musicXML, inFlight, hookLoaded>>
  /\ UNCHANGED error
  /\ HookFrame

\* the response of a fetch arrives: .then((response) => response.text())
\* .then(setMusicXML)
FetchResolves(request) ==
  /\ request \in inFlight
  /\ inFlight' = inFlight \ {request}
  /\ musicXML' = ResponseText(request.url)
  /\ hookLoaded' = IF request.url = currentSource.url /\ currentSource.type = "remote"
                     THEN TRUE ELSE hookLoaded
  /\ UNCHANGED <<currentSource, error, nRenders>>
  /\ HookFrame

\* a fetch fails: .catch((e) => setError(...))
FetchFails(request) ==
  /\ request \in inFlight
  /\ inFlight' = inFlight \ {request}
  /\ error' = FetchError(request.url)
  /\ UNCHANGED <<currentSource, musicXML, nRenders, hookLoaded>>
  /\ HookFrame

NextHook ==
  \/ \E source \in Sources : UseMusicXML(source)
  \/ \E request \in inFlight : FetchResolves(request)
  \/ \E request \in inFlight : FetchFails(request)

IdleHook ==
  /\ currentSource = NoSource /\ musicXML = "" /\ error = NoError
  /\ inFlight = {} /\ nRenders = 0 /\ hookLoaded = FALSE

IdleLines ==
  /\ lpc = "idle" /\ width = 0 /\ systems = <<>> /\ sysIndex = 0 /\ lines = <<>>
  /\ remainingWidth = 0 /\ sysWidth = <<>> /\ firstOfLine = <<>> /\ lineWidth = <<>>

IdleFit ==
  /\ fpc = "idle" /\ fragments = <<>> /\ isLastSystem = FALSE
  /\ targetSystemWidth = 0 /\ minRequiredSystemWidth = 0 /\ fragIndex = 0
  /\ rendered = <<>>

IdleVoice ==
  /\ vpc = "idle" /\ entries = <<>> /\ voiceEntryIndex = 0
  /\ currentMeasureBeat = 0 /\ tickables = <<>> /\ siblingEnd = 0

IdleFragments ==
  /\ gpc = "idle" /\ measureEntries = <<>> /\ measureEntryIndex = 0
  /\ nextSignature = [exists |-> FALSE, clef |-> FALSE, measureOffset |-> 0,
                      measureEntryIndex |-> 0]
  /\ barStyles = [beginning |-> "regular", end |-> "regular"]
  /\ staveSignature = 0 /\ currentMeasureEntries = <<>> /\ measureFragments = <<>>

IdleSystem ==
  /\ spc = "idle" /\ systemMeasures = <<>> /\ systemX = 0 /\ systemMeasureIndex = 0
  /\ renderX = 0 /\ measureRenderings = <<>>

\* the machines that render nothing while the machine under study runs
\* the machines of the later sections at rest, but for the one named
IdleLateExcept(machine) ==
  /\ machine # "stave" => IdleStave
  /\ machine # "duration" => IdleDuration
  /\ machine # "key" => IdleKey
  /\ machine # "keysig" => IdleKeySignature
  /\ machine # "beams" => IdleBeams
  /\ machine # "fragmentrender" => IdleFragmentRender
  /\ machine # "format" => IdleFormat
  /\ machine # "hook" => IdleHook

IdleLate == IdleLateExcept("none")

IdleRest == IdleFragments /\ IdleSystem /\ IdleAccidentals /\ IdleParse /\ IdleWidth /\ IdlePasses /\ IdleChanges /\ IdleLate

Init == InitCtx /\ InitMR /\ IdleLines /\ IdleFit /\ IdleVoice /\ IdleRest
Next == NextCtx
Spec == Init /\ [][Next]_vars

SpecMultiRest == Init /\ [][NextMR]_vars

InitLinesOnly == InitCtx /\ InitMR /\ InitLines /\ IdleFit /\ IdleVoice /\ IdleRest
SpecLines == InitLinesOnly /\ [][NextLines]_vars

InitFitOnly == InitCtx /\ InitMR /\ IdleLines /\ InitFit /\ IdleVoice /\ IdleRest
SpecFit == InitFitOnly /\ [][NextFit]_vars

\* the two layout machines side by side: a behaviour runs one of them
InitLayout == InitLinesOnly \/ InitFitOnly
NextLayout ==
  \/ PartitionStep
  \/ PartitionReturn
  \/ FitLines
  \/ RenderFragment
  \/ RenderDone
SpecLayout == InitLayout /\ [][NextLayout]_vars

\* the calls of the spanner lifecycle, the history of curve stops kept; the id
\* provider is handed to the ScoreContext and has served an id before
InitLifecycle ==
  /\ idCounter = 1 /\ EmptyRegistries /\ stopped = History(TRUE)
  /\ InitMR /\ IdleLines /\ IdleFit /\ IdleVoice /\ IdleRest
SpecLifecycle == InitLifecycle /\ [][NextLifecycle]_vars

\* the calls of one VoiceContext after another: beams and tuplets
NextVoiceContext ==
  \/ BeginBeam
  \/ ContinueBeam
  \/ \E n \in TupletNumbers : BeginTuplet(n)
  \/ ContinueOpenTuplets
  \/ \E n \in TupletNumbers : CloseTuplet(n)
  \/ NewVoiceContext
\* the begin, continue and close calls of every spanner, no history of curve
\* stops kept
InitLookups ==
  /\ idCounter = 1 /\ EmptyRegistries /\ stopped = NoHistory
  /\ InitMR /\ IdleLines /\ IdleFit /\ IdleVoice /\ IdleRest
NextLookups ==
  \/ \E n \in CurveNumbers : BeginCurve(n)
  \/ \E n \in CurveNumbers : ContinueCurve(n)
  \/ \E p \in PartIds, s \in StaveNumbers : BeginWedge(p, s)
  \/ \E p \in PartIds, s \in StaveNumbers : ContinueOpenWedge(p, s)
  \/ \E p \in PartIds, s \in StaveNumbers : CloseWedge(p, s)
  \/ \E p \in PartIds : BeginPedal(p)
  \/ \E p \in PartIds : ContinueOpenPedal(p)
  \/ \E p \in PartIds, m \in PedalMarkTypes : PrimeNextPedalMark(p, m)
  \/ \E p \in PartIds : ClosePedal(p)
  \/ BeginBeam
  \/ ContinueBeam
  \/ \E n \in TupletNumbers : BeginTuplet(n)
  \/ ContinueOpenTuplets
  \/ \E n \in TupletNumbers : CloseTuplet(n)
  \/ NewVoiceContext
SpecLookups == InitLookups /\ [][NextLookups]_vars

\* the calls on the wedges, the pedals and the tuplets
NextSpanners ==
  \/ \E p \in PartIds, s \in StaveNumbers : BeginWedge(p, s)
  \/ \E p \in PartIds, s \in StaveNumbers : ContinueOpenWedge(p, s)
  \/ \E p \in PartIds, s \in StaveNumbers : CloseWedge(p, s)
  \/ \E p \in PartIds : BeginPedal(p)
  \/ \E p \in PartIds : ContinueOpenPedal(p)
  \/ \E p \in PartIds, m \in PedalMarkTypes : PrimeNextPedalMark(p, m)
  \/ \E p \in PartIds : ClosePedal(p)
  \/ \E n \in TupletNumbers : BeginTuplet(n)
  \/ ContinueOpenTuplets
  \/ \E n \in TupletNumbers : CloseTuplet(n)
SpecSpanners == InitLifecycle /\ [][NextSpanners]_vars

\* a VoiceContext whose id source has served an id before, the history of its
\* tuplets kept
InitVoiceContext ==
  /\ idCounter = 1 /\ EmptyRegistries
  /\ stopped = [History(FALSE) EXCEPT !.tuplets = TRUE]
  /\ InitMR /\ IdleLines /\ IdleFit /\ IdleVoice /\ IdleRest
SpecVoiceContext == InitVoiceContext /\ [][NextVoiceContext]_vars

InitVoiceOnly == InitCtx /\ InitMR /\ IdleLines /\ IdleFit /\ InitVoice /\ IdleRest

InitFragmentsOnly ==
  InitCtx /\ InitMR /\ IdleLines /\ IdleFit /\ IdleVoice /\ InitFragments /\ IdleSystem
  /\ IdleAccidentals /\ IdleParse /\ IdleWidth /\ IdlePasses /\ IdleChanges /\ IdleLate
SpecFragments == InitFragmentsOnly /\ [][NextFragments]_vars

InitSystemOnly ==
  InitCtx /\ InitMR /\ IdleLines /\ IdleFit /\ IdleVoice /\ IdleFragments /\ InitSystem
  /\ IdleAccidentals /\ IdleParse /\ IdleWidth /\ IdlePasses /\ IdleChanges /\ IdleLate
SpecSystem == InitSystemOnly /\ [][NextSystem]_vars
SpecVoice == InitVoiceOnly /\ [][NextVoice]_vars

InitAccidentalsOnly ==
  /\ InitCtx /\ InitMR /\ IdleLines /\ IdleFit /\ IdleVoice /\ IdleFragments /\ IdleSystem
  /\ InitAccidentals /\ IdleParse /\ IdleWidth /\ IdlePasses /\ IdleChanges /\ IdleLate
SpecAccidentals == InitAccidentalsOnly /\ [][NextAccidentals]_vars

InitParseOnly ==
  /\ InitCtx /\ IdleLines /\ IdleFit /\ IdleVoice /\ IdleFragments /\ IdleSystem
  /\ IdleAccidentals /\ InitParse /\ IdleWidth /\ IdlePasses /\ IdleChanges /\ IdleLate
SpecParse == InitParseOnly /\ [][NextParse]_vars

\* the two width computations side by side: a behaviour runs one of them
InitWidth ==
  /\ InitCtx /\ InitMR /\ IdleLines /\ IdleFit /\ IdleVoice /\ IdleFragments /\ IdleSystem
  /\ IdleAccidentals /\ IdleParse /\ IdlePasses /\ IdleChanges /\ IdleLate
  /\ \/ InitMinWidth /\ IdleEnsemble
     \/ IdleMinWidth /\ InitEnsemble
SpecWidth == InitWidth /\ [][NextWidth]_vars

InitPassesOnly(inputs) ==
  /\ InitCtx /\ InitMR /\ IdleLines /\ IdleFit /\ IdleVoice /\ IdleFragments /\ IdleSystem
  /\ IdleAccidentals /\ IdleParse /\ IdleWidth /\ InitPasses(inputs) /\ IdleChanges /\ IdleLate
InitModifiers == InitPassesOnly(ModifierLines)
InitBarlines == InitPassesOnly(BarLines)
SpecModifiers == InitModifiers /\ [][NextPasses]_vars
SpecBarlines == InitBarlines /\ [][NextPasses]_vars

InitChangesOnly ==
  /\ InitCtx /\ InitMR /\ IdleLines /\ IdleFit /\ IdleVoice /\ IdleFragments /\ IdleSystem
  /\ IdleAccidentals /\ IdleParse /\ IdleWidth /\ IdlePasses /\ InitChanges /\ IdleLate
SpecChanges == InitChangesOnly /\ [][NextChanges]_vars

\* the machines of the earlier sections at rest
IdleEarly ==
  /\ InitCtx /\ InitMR /\ IdleLines /\ IdleFit /\ IdleVoice /\ IdleFragments /\ IdleSystem
  /\ IdleAccidentals /\ IdleParse /\ IdleWidth /\ IdlePasses /\ IdleChanges

InitStaveOnly == IdleEarly /\ IdleLateExcept("stave") /\ InitStave
SpecStave == InitStaveOnly /\ [][NextStave]_vars
InitDurationOnly == IdleEarly /\ IdleLateExcept("duration") /\ InitDuration
SpecDuration == InitDurationOnly /\ [][NextDuration]_vars
InitKeyOnly == IdleEarly /\ IdleLateExcept("key") /\ InitKey
SpecKey == InitKeyOnly /\ [][NextKey]_vars
InitKeySignatureOnly == IdleEarly /\ IdleLateExcept("keysig") /\ InitKeySignature
SpecKeySignature == InitKeySignatureOnly /\ [][NextKeySignature]_vars
InitBeamsOnly == IdleEarly /\ IdleLateExcept("beams") /\ InitBeams
SpecBeams == InitBeamsOnly /\ [][NextBeams]_vars
InitFragmentRenderOnly == IdleEarly /\ IdleLateExcept("fragmentrender") /\ InitFragmentRender
SpecFragmentRender == InitFragmentRenderOnly /\ [][NextFragmentRender]_vars
InitFormatOnly == IdleEarly /\ IdleLateExcept("format") /\ InitFormat
SpecFormat == InitFormatOnly /\ [][NextFormat]_vars
InitHookOnly == IdleEarly /\ IdleLateExcept("hook") /\ InitHook
SpecHook == InitHookOnly /\ [][NextHook]_vars

----------------------------------------------------------------------------
(* The claims *)

Max0(i) == IF i > 0 THEN i ELSE 0

\* C1: on a part with no earlier multi-rest state, after
\* incrementMultiRestCount(P, S, N) for a stave number S, getMultiRestCount(P, S)
\* is max(N - k, 0) after k calls of decrementMultiRestCounts: 0 after exactly N
\* calls, never negative.
C1_CountsDownToZero ==
  mrTrack.on =>
    getMultiRestCount(mrTrack.p, mrTrack.s) = Max0(mrTrack.n - mrTrack.k)

\* a count of N >= 1 has met N + 1 decrements
C1_Witness ==
  /\ mrTrack.on
  /\ mrTrack.n >= 1
  /\ mrTrack.k = mrTrack.n + 1
  /\ getMultiRestCount(mrTrack.p, mrTrack.s) = 0

\* C2: every continueCurve(n) returns the id returned by the latest
\* beginCurve(n), whatever was begun or continued on other curve numbers and
\* whatever contexts were created in between; a later beginCurve(n) replaces
\* the id.
C2_ContinueReturnsLatestBegin ==
  lastCall.op = "continueCurve" => lastCall.ret = begun[lastCall.num]

\* curve n was begun, then a curve of another number, then n is continued
C2_Witness ==
  /\ lastCall.op = "continueCurve"
  /\ lastCall.ret # Null
  /\ \E m \in CurveNumbers \ {lastCall.num} : begun[m] > lastCall.ret

\* C3: the ids returned by beginCurve, beginWedge, beginPedal, beginBeam and
\* beginTuplet through one chain are pairwise different: as many different ids
\* were returned as begin calls were made.
C3_BeginIdsUnique == Cardinality(issued) = nBegun

\* a curve, a beam and a tuplet hold three ids of one chain
C3_Witness ==
  /\ nBegun = 3
  /\ \E n \in CurveNumbers : curveIds[n] # Null
  /\ beams # <<>>
  /\ openTuplets # <<>>

\* C4: the lines partitionToLines returns hold, concatenated in line order,
\* exactly the input systems in input order, and none of them is empty.
C4_LinesPartitionSystems ==
  lpc \in {"fit", "done"} =>
    /\ Flatten(lines) = [i \in 1..Len(systems) |-> i]
    /\ \A k \in 1..Len(lines) : lines[k] # <<>>

\* three systems on two or more lines, the first of them wider than the target:
\* the line that was open before it stayed empty
C4_Witness ==
  /\ lpc = "done"
  /\ Len(systems) = 3
  /\ Len(lines) >= 2
  /\ sysWidth[1] > width

\* the width the claims expect for a system
ExpectedWidth(i) ==
  systems[i].jw + JUSTIFY_PADDING + (IF firstOfLine[i] THEN systems[i].mw ELSE 0)

\* C5: the width assigned to a system is justify width + JUSTIFY_PADDING +
\* modifiers width, counted once, when it is the first of its line, and justify
\* width + JUSTIFY_PADDING otherwise; after a system has started a line the
\* remaining width is the target width minus that width.
C5_ModifiersCountedOnce ==
  /\ \A i \in 1..Len(sysWidth) : sysWidth[i] = ExpectedWidth(i)
  /\ \A i \in 1..Len(sysWidth) :
       (lpc = "partition" /\ i = Len(sysWidth) /\ firstOfLine[i]) =>
         remainingWidth = width - sysWidth[i]

\* a system requires 500px: justify width, padding and modifiers
Requires500(system) == system.jw + JUSTIFY_PADDING + system.mw = 500

TwoSystemsOf500(target) ==
  /\ lpc = "done"
  /\ width = target
  /\ Len(systems) = 2
  /\ \A i \in 1..2 : Requires500(systems[i])

C7_FitWidthsSumToTarget ==
  (fpc = "done" /\ ~isLastSystem /\ minRequiredSystemWidth = SumSeq(fragments)) =>
    RSum(rendered) = RInt(targetSystemWidth)

\* two or more fragments stretched by a width that does not divide evenly
C7_Witness ==
  /\ fpc = "done"
  /\ ~isLastSystem
  /\ minRequiredSystemWidth = SumSeq(fragments)
  /\ Len(fragments) >= 2
  /\ targetSystemWidth > minRequiredSystemWidth
  /\ \E i \in 1..Len(rendered) : rendered[i].d > 1

LastLine == lines[Len(lines)]

\* the last line is one system that alone is wider than the target
LastLineIsOneWideSystem ==
  /\ Len(LastLine) = 1
  /\ systems[LastLine[1]].jw + JUSTIFY_PADDING + systems[LastLine[1]].mw > width

LastLineUnstretched ==
  /\ isLastSystem =>
       \A i \in 1..Len(rendered) : rendered[i] = RInt(fragments[i])
  /\ (lpc = "done" /\ lines # <<>>) =>
       lineWidth[Len(lines)] = AssignedWidth(LastLine)

ExtraWidth(i) == RSub(rendered[i], RInt(fragments[i]))

\* C9: in a system that is not the last, the extra width of a fragment is
\* (targetSystemWidth - minRequiredSystemWidth) * minRequiredWidth /
\* minRequiredSystemWidth; the extra widths of two fragments are in the ratio of
\* their minimum widths; with a target of at least the minimum system width no
\* fragment is narrower than its minimum.
C9_SlackProportional ==
  (fpc # "idle" /\ ~isLastSystem) =>
    /\ \A i \in 1..Len(rendered) :
         ExtraWidth(i) =
           RDiv(RInt((targetSystemWidth - minRequiredSystemWidth) * fragments[i]),
                RInt(minRequiredSystemWidth))
    /\ \A i, j \in 1..Len(rendered) :
         RMul(ExtraWidth(i), RInt(fragments[j])) = RMul(ExtraWidth(j), RInt(fragments[i]))
    /\ targetSystemWidth >= minRequiredSystemWidth =>
         \A i \in 1..Len(rendered) : RLeq(RInt(fragments[i]), rendered[i])

\* two fragments of different minimum widths are both stretched
C9_Witness ==
  /\ fpc = "done"
  /\ ~isLastSystem
  /\ targetSystemWidth > minRequiredSystemWidth
  /\ \E i, j \in 1..Len(rendered) :
       /\ 0 < fragments[i]
       /\ fragments[i] < fragments[j]
       /\ RLeq(RInt(fragments[i] + 1), rendered[i])
       /\ RLeq(rendered[i], rendered[j])

\* C10: the tickables renderEntries adds are contiguous in time: every tickable
\* starts where the one before it ends, and before an entry that starts after
\* the cursor there is one ghost note that lasts from the cursor to the entry.
C10_TickablesContiguous ==
  \A i \in 1..Len(tickables) :
    /\ i < Len(tickables) =>
         tickables[i].beat + tickables[i].duration = tickables[i + 1].beat
    /\ i > 1 => (tickables[i].type = "ghost" => tickables[i - 1].type = "entry")
    /\ (tickables[i].type = "ghost" /\ i < Len(tickables)) =>
         tickables[i + 1].type = "entry"

\* the beat at which the tickables of the voice end
TickablesEnd ==
  IF tickables = <<>> THEN currentMeasureBeat
  ELSE tickables[Len(tickables)].beat + tickables[Len(tickables)].duration

\* C11: a rendered voice whose last entry ends before a simultaneous voice of the
\* stave does has gained a synthesized rest up to that end: its tickables end
\* where the other voice ends
C11_VoicesCoverSameDuration ==
  (/\ vpc = "done"
   /\ entries # <<>>
   /\ entries[Len(entries)].measureBeat + entries[Len(entries)].duration < siblingEnd)
    => TickablesEnd = siblingEnd

----------------------------------------------------------------------------
(* The fragments of a measure *)

\* the next signature changes the clef and is the first entry of the next measure
ClefChangeOnBoundary ==
  /\ nextSignature.exists /\ nextSignature.clef
  /\ nextSignature.measureOffset = 1 /\ nextSignature.measureEntryIndex = 0

\* the entries in front of which the measure is split: a changed signature or a
\* supported metronome that is not the first entry
Boundaries ==
  {i \in 2..Len(measureEntries) : measureEntries[i] \in {"changed", "metronome"}}

\* the first entry of the last run of entries
LastStart == IF Boundaries = {} THEN 1 ELSE CHOOSE i \in Boundaries : \A j \in Boundaries : j <= i

\* the entries i..j in order
Run(i, j) == [k \in 1..(j - i + 1) |-> i + k - 1]

\* the fragments without the signature-only trailing fragment
OwnFragments ==
  IF ClefChangeOnBoundary /\ measureFragments # <<>>
    THEN SubSeq(measureFragments, 1, Len(measureFragments) - 1)
    ELSE measureFragments

\* C12: a measure without a changed signature, without a supported metronome and
\* without a clef change on the measure boundary has exactly one fragment, the
\* measure without entries included
C12_OneFragmentWithoutChanges ==
  (/\ gpc = "done"
   /\ \A i \in 1..Len(measureEntries) : measureEntries[i] \notin {"changed", "metronome"}
   /\ ~ClefChangeOnBoundary)
    => Len(measureFragments) = 1

\* C13: the fragments partition the entries of the measure: their entries, in
\* fragment order, are the entries of the measure in order (the trailing fragment
\* of a clef change on the boundary aside), and the indexes are 0, 1, 2, ...
C13_FragmentsPartitionEntries ==
  gpc = "done" =>
    /\ Flatten([k \in 1..Len(OwnFragments) |-> OwnFragments[k].measureEntries])
         = Run(1, Len(measureEntries))
    /\ \A k \in 1..Len(measureFragments) : measureFragments[k].index = k - 1

\* a measure split in the middle and closed by a trailing fragment
C13_Witness ==
  /\ gpc = "done"
  /\ ClefChangeOnBoundary
  /\ Len(measureFragments) >= 3
  /\ Len(measureFragments[1].measureEntries) >= 2

\* C14: the fragments start exactly at the first entry and at every later entry
\* that is a changed signature or a supported metronome, and no fragment is
\* without entries
C14_SplitsExactlyAtChanges ==
  gpc = "done" =>
    /\ \A k \in 1..Len(measureFragments) : measureFragments[k].measureEntries # <<>>
    /\ {OwnFragments[k].measureEntries[1] : k \in 1..Len(OwnFragments)}
         = Boundaries \cup (IF measureEntries = <<>> THEN {} ELSE {1})

\* a measure that begins with a change and is split at a later change
C14_Witness ==
  /\ gpc = "done"
  /\ Len(measureEntries) >= 3
  /\ measureEntries[1] \in {"changed", "metronome"}
  /\ measureEntries[3] \in {"changed", "metronome"}
  /\ measureEntries[2] \notin {"changed", "metronome"}
  /\ Len(measureFragments) = 2

\* C15: a measure with entries ends, at a clef change on the boundary, with the
\* fragment of the remaining entries (end bar style 'none') and a fragment that
\* holds only the next signature and carries the end bar style; otherwise its
\* last fragment holds the remaining entries and carries the end bar style
C15_ClefChangeOnBoundaryTrails ==
  (gpc = "done" /\ measureEntries # <<>>) =>
    LET n == Len(measureFragments)
        remaining == Run(LastStart, Len(measureEntries))
    IN IF ClefChangeOnBoundary
         THEN /\ n >= 2
              /\ measureFragments[n - 1].measureEntries = remaining
              /\ measureFragments[n - 1].endBarStyle = "none"
              /\ measureFragments[n].measureEntries = <<NextSignatureEntry>>
              /\ measureFragments[n].leadingStaveSignature = NextSignatureEntry
              /\ measureFragments[n].beginningBarStyle = "none"
              /\ measureFragments[n].endBarStyle = barStyles.end
         ELSE /\ n >= 1
              /\ measureFragments[n].measureEntries = remaining
              /\ measureFragments[n].endBarStyle = barStyles.end

\* a split measure whose next signature changes the clef on the boundary
C15_Witness ==
  /\ gpc = "done"
  /\ ClefChangeOnBoundary
  /\ Boundaries # {}
  /\ barStyles.end = "light-heavy"

----------------------------------------------------------------------------
(* The positions of measures and fragments *)

\* the x at which a measure rendering ends
EndOf(r) == r.x + r.width

\* C16: the width of a measure rendering is the sum of the widths of its fragment
\* renderings; its first fragment is rendered at the x of the measure and every
\* other one where the fragment before it ends; the first measure is rendered at
\* the x of the system and every other one where the measure before it ends
C16_MeasuresAndFragmentsAbut ==
  \A m \in 1..Len(measureRenderings) :
    LET r == measureRenderings[m]
    IN /\ r.width = SumSeq([k \in 1..Len(r.fragments) |-> r.fragments[k].width])
       /\ [k \in 1..Len(r.fragments) |-> r.fragments[k].width] = systemMeasures[m]
       /\ \A k \in 1..Len(r.fragments) :
            r.fragments[k].x = IF k = 1 THEN r.x ELSE EndOf(r.fragments[k - 1])
       /\ r.x = IF m = 1 THEN systemX ELSE EndOf(measureRenderings[m - 1])

\* a rendered system of two measures, the first of them with several fragments
C16_Witness ==
  /\ spc = "done"
  /\ Len(measureRenderings) >= 2
  /\ Len(measureRenderings[1].fragments) >= 2
  /\ measureRenderings[2].fragments # <<>>

----------------------------------------------------------------------------
(* The all-staves multi-rest count *)

\* a step from a state where a part has a count under the null key
AllStavesCountDown ==
  \A p \in PartIds :
    MapHas(multiRestCounts[p], Null) =>
      /\ \A s \in StaveNumbers :
           getMultiRestCount(p, s) = MapGet(multiRestCounts[p], Null)
      /\ decrementMultiRestCounts =>
           \A s \in StaveKeys :
             getMultiRestCount(p, s)' = Max0(MapGet(multiRestCounts[p], Null) - 1)

\* C17: with a count under the null key of part P, getMultiRestCount(P, s) is that
\* count for every stave number s, and decrementMultiRestCounts lowers it by one
\* (down to 0) for all staves alike, stave-specific counts of P or not
C17_AllStavesCountUniform == [][AllStavesCountDown]_vars

\* a decrement has run on a part that holds a positive all-staves count next to a
\* stave-specific count
C17_Witness ==
  /\ mrLast = "decrementMultiRestCounts"
  /\ \E p \in PartIds :
       /\ MapHas(multiRestCounts[p], Null)
       /\ MapGet(multiRestCounts[p], Null) > 0
       /\ \E s \in StaveNumbers : MapHas(multiRestCounts[p], s)

----------------------------------------------------------------------------
(* The lifecycle of the spanners *)

Registries ==
  <<curveIds, wedgeIds, pedalIds, nextPedalMarkTypes, beams, openTuplets, closedTuplets>>

\* a step that looks a spanner up while no matching spanner is open
LookupWithoutOpenSpanner ==
  /\ \A n \in CurveNumbers :
      (lastCall'.op = "continueCurve" /\ lastCall'.num = n /\ begun[n] = Null)
        => (lastCall'.ret = Null /\ UNCHANGED Registries)
  /\ \A p \in PartIds, s \in StaveNumbers :
      (lastCall'.op = "continueOpenWedge" /\ lastCall'.part = p /\ lastCall'.num = s
         /\ wedgeIds[p][s] = Null)
        => (lastCall'.ret = Null /\ UNCHANGED Registries)
  /\ \A p \in PartIds :
      (lastCall'.op = "continueOpenPedal" /\ lastCall'.part = p /\ pedalIds[p] = Null)
        => (lastCall'.ret = Null /\ UNCHANGED Registries)
  /\ (lastCall'.op = "continueBeam" /\ beams = <<>>)
        => (lastCall'.ret = Null /\ UNCHANGED Registries)
  /\ (lastCall'.op = "continueOpenTuplets" /\ openTuplets = <<>>)
        => (lastCall'.ids = <<>> /\ UNCHANGED Registries)
  /\ \A n \in TupletNumbers :
      (lastCall'.op = "closeTuplet" /\ lastCall'.num = n /\ ~MapHas(openTuplets, n))
        => (lastCall'.ret = Null /\ UNCHANGED Registries)

\* C18: a lookup without a matching open spanner returns null (continueCurve,
\* continueOpenWedge, continueOpenPedal, continueBeam, closeTuplet) or the empty
\* list (continueOpenTuplets), and leaves every registry as it was
C18_LookupWithoutOpenSpanner == [][LookupWithoutOpenSpanner]_vars

\* a wedge lookup came back empty while the wedge of the other stave of the part
\* and a pedal are open
C18_Witness ==
  /\ lastCall.op = "continueOpenWedge" /\ lastCall.ret = Null
  /\ \E s \in StaveNumbers : wedgeIds[lastCall.part][s] # Null
  /\ \E p \in PartIds : pedalIds[p] # Null

\* a step of the lifecycle of wedges, pedals and tuplets
ClosedSpannerNotContinued ==
  /\ \A p \in PartIds, s \in StaveNumbers :
      /\ (lastCall'.op = "closeWedge" /\ lastCall'.part = p /\ lastCall'.num = s)
           => ContinueOpenWedgeResult(p, s)' = Null
      /\ (ContinueOpenWedgeResult(p, s) = Null /\ ContinueOpenWedgeResult(p, s)' # Null)
           => (lastCall'.op = "beginWedge" /\ lastCall'.part = p /\ lastCall'.num = s)
  /\ \A p \in PartIds :
      /\ (lastCall'.op = "closePedal" /\ lastCall'.part = p) => pedalIds'[p] = Null
      /\ (pedalIds[p] = Null /\ pedalIds'[p] # Null)
           => (lastCall'.op = "beginPedal" /\ lastCall'.part = p)
      /\ (lastCall'.op = "continueOpenPedal" /\ lastCall'.part = p /\ pedalIds[p] = Null)
           => lastCall'.ret = Null
  /\ (lastCall'.op = "closeTuplet" /\ lastCall'.ret # Null)
        => lastCall'.ret \notin Range(ContinueOpenTupletsResult')
  /\ \A id \in 1..idCounter :
      id \notin Range(ContinueOpenTupletsResult)
        => id \notin Range(ContinueOpenTupletsResult')

\* C19: right after closeWedge(P, S) the lookup of (P, S) gives null, and a lookup
\* that gives null keeps giving null until beginWedge(P, S); the same for
\* closePedal(P) and beginPedal(P); the id closeTuplet(n) returns is no longer
\* among the open tuplets, and an id that is not among them never comes back
C19_ClosedSpannerNotContinued == [][ClosedSpannerNotContinued]_vars

\* a tuplet has just been closed while another tuplet of the voice stays open
C19_Witness ==
  /\ lastCall.op = "closeTuplet" /\ lastCall.ret # Null
  /\ openTuplets # <<>>

\* C20: once the curve numbered n has been stopped, continueCurve(n) returns null
\* until the next beginCurve(n)
C20_StoppedCurveNotContinued ==
  \A n \in CurveNumbers :
    (stopped.curve[n] /\ lastCall.op = "continueCurve" /\ lastCall.num = n)
      => lastCall.ret = Null

----------------------------------------------------------------------------
(* Incrementing the count of one stave *)

\* a step that is incrementMultiRestCount(p, s, n) for a stave number s adds n to
\* what getMultiRestCount(p, s) returns
IncrementAddsCount ==
  \A p \in PartIds, s \in StaveNumbers, n \in 0..MaxCount :
    incrementMultiRestCount(p, s, n) =>
      getMultiRestCount(p, s)' = getMultiRestCount(p, s) + n

\* C30: in every reachable state incrementMultiRestCount(P, S, N) for a stave
\* number S makes getMultiRestCount(P, S) its previous value plus N, also when
\* part P has an all-staves (null key) count, run down to 0 or not
C30_IncrementAddsCount == [][IncrementAddsCount]_vars

----------------------------------------------------------------------------
(* The scope of a curve number *)

\* a step that is beginCurve(n) through one voice context leaves what
\* continueCurve(n) returns through every other voice context as it was
BeginCurveKeepsOtherContexts ==
  \A p \in PartIds, s \in StaveNumbers, v \in VoiceIds, n \in CurveNumbers :
    VoiceContextBeginCurve(p, s, v, n) =>
      \A q \in PartIds, r \in StaveNumbers, w \in VoiceIds :
        <<q, r, w>> # <<p, s, v>> =>
          VoiceContextContinueCurve(q, r, w, n)' = VoiceContextContinueCurve(q, r, w, n)

\* C21: curve numbers are scoped to a voice or stave: beginCurve(n) through the
\* context of one part, stave or voice does not change what continueCurve(n)
\* returns through the context of a different part, stave or voice
C21_CurveNumbersScoped == [][BeginCurveKeepsOtherContexts]_vars

----------------------------------------------------------------------------
(* The accidentals of a measure *)

\* a step of the measure context: a new one has no active accidental, a set is
\* read back and touches no other entry
AccidentalsPerMeasure ==
  /\ NewMeasureContext =>
       \A P \in PartIds, p \in Pitches, o \in Octaves :
         getActiveAccidental(P, p, o)' = NoAccidental
  /\ \A P \in PartIds, p \in Pitches, o \in Octaves, a \in AccidentalCodes :
       setActiveAccidental(P, p, o, a) =>
         /\ getActiveAccidental(P, p, o)' = a
         /\ \A Q \in PartIds, q \in Pitches, r \in Octaves :
              <<Q, q, r>> # <<P, p, o>> =>
                getActiveAccidental(Q, q, r)' = getActiveAccidental(Q, q, r)

\* C22: accidental memory is per measure: a newly created MeasureContext returns
\* null from getActiveAccidental for every (part, pitch, octave), whatever was set
\* in earlier measures; within a measure setActiveAccidental(P, p, o, a) makes
\* getActiveAccidental(P, p, o) return a and leaves every other entry unchanged
C22_AccidentalsPerMeasure == [][AccidentalsPerMeasure]_vars

\* accidentals were set in an earlier measure, and the measure context created
\* after it has had one accidental set
C22_Witness ==
  /\ accEarlier
  /\ accLast = "set"
  /\ Cardinality({x \in PartIds \X Pitches \X Octaves :
                    getActiveAccidental(x[1], x[2], x[3]) # NoAccidental}) = 1

----------------------------------------------------------------------------
(* Beams and tuplets stay within one voice context *)

\* the beam most recently begun in the current voice context
LatestBeam == IF beams = <<>> THEN Null ELSE beams[Len(beams)]

\* a step of the chain: a new voice context continues no beam and no tuplet, a
\* begun beam is the latest one of its voice context, and continueBeam returns it
BeamsWithinVoiceContext ==
  /\ NewVoiceContext =>
       /\ ContinueBeamResult' = Null
       /\ ContinueOpenTupletsResult' = <<>>
  /\ BeginBeam => LatestBeam' = lastCall'.ret
  /\ ~(NewVoiceContext \/ BeginBeam) => LatestBeam' = LatestBeam
  /\ ContinueBeam => lastCall'.ret = LatestBeam

\* C23: beams and tuplets never span VoiceContexts: a newly created VoiceContext
\* returns null from continueBeam() and an empty list from continueOpenTuplets(),
\* whatever was begun in earlier voice contexts, and continueBeam() returns the id
\* of the beam most recently begun in the same VoiceContext
C23_BeamsWithinVoiceContext == [][BeamsWithinVoiceContext]_vars

\* continueBeam has returned the second beam of a voice context
C23_Witness ==
  /\ lastCall.op = "continueBeam"
  /\ Len(beams) = 2
  /\ lastCall.ret = beams[2]

----------------------------------------------------------------------------
(* The entries of a voice under a multi-rest *)

\* C24: when the multi-rest count of the voice's (part, stave) is greater than 0,
\* Voice.parse returns exactly one entry, a whole rest, and no beams, whatever
\* events the voice holds; when the count is 0 it returns one entry per event, in
\* event order
C24_MultiRestVoiceIsWholeRest ==
  ppc = "done" =>
    /\ getMultiRestCount(voiceOf.part, voiceOf.stave) > 0 =>
         /\ Len(parsedEntries) = 1
         /\ parsedEntries[1].type = "rest" /\ parsedEntries[1].whole
         /\ parsedBeams = <<>>
    /\ getMultiRestCount(voiceOf.part, voiceOf.stave) = 0 =>
         /\ Len(parsedEntries) = Len(voiceEvents)
         /\ \A i \in 1..Len(voiceEvents) :
              /\ parsedEntries[i].event = i
              /\ parsedEntries[i].type = voiceEvents[i]
              /\ ~parsedEntries[i].whole

\* a voice of three events has been parsed under a multi-rest count of 1
C24_Witness ==
  /\ ppc = "done"
  /\ getMultiRestCount(voiceOf.part, voiceOf.stave) = 1
  /\ Len(voiceEvents) = 3
  /\ Len(parsedEntries) = 1

----------------------------------------------------------------------------
(* The width of a fragment without voices *)

\* no stave of the fragment has a voice
FragmentHasNoVoices ==
  \A i \in 1..Len(mf.partIds) :
    mf.entry[mf.partIds[i]].chorus => mf.entry[mf.partIds[i]].voices = 0

\* no stave of the ensemble has a voice
EnsembleHasNoVoices == \A i \in 1..Len(ensemble.staves) : ensemble.staves[i] = 0

\* C25: a fragment that has no voices on any stave has a minimum required width
\* of 0: no base voice width, voice padding or spanner padding is added for it
C25_NoVoicesNoWidth ==
  /\ (mpc = "done" /\ FragmentHasNoVoices) => mfWidth = 0
  /\ (epc = "done" /\ EnsembleHasNoVoices) => ensVoiceWidth = 0

----------------------------------------------------------------------------
(* A part id without a stave signature or bar style *)

\* the positions of the part ids that lack a stave signature, a beginning bar
\* style or an end bar style
Lacking ==
  {i \in 1..Len(mf.partIds) :
     \/ mf.partIds[i] \notin mf.staveSignatures
     \/ mf.partIds[i] \notin mf.beginningBarStyles
     \/ mf.partIds[i] \notin mf.endBarStyles}

\* C29: MeasureFragment.getMinRequiredWidth throws whenever one of the fragment's
\* part ids has no stave signature entry (or no beginning or end bar style
\* entry): getParts never gets past such a part id, and no width is returned from
\* only a subset of the parts
C29_MissingEntryThrows ==
  Lacking # {} =>
    /\ mpc \in {"parts", "threw"}
    /\ mpc = "parts" => \A i \in Lacking : mfIndex <= i
    /\ mfWidth = 0

\* getParts has thrown on the second part id, the first part built
C29_Witness ==
  /\ mpc = "threw"
  /\ Len(mfParts) = 1
  /\ mf.entry[mfParts[1]].chorus /\ mf.entry[mfParts[1]].voices > 0

----------------------------------------------------------------------------
(* The beginning modifiers of a line *)

\* the staves of the systems up to the start of line k, its first system included
StavesUpToStartOf(k) ==
  Flatten([j \in 1..(k - 1) |-> Flatten(renderLines[j].systems)])
    \o renderLines[k].systems[1]

\* the value of the last stave of the staves that has one, if any
LastSeen(values) ==
  IF \A i \in 1..Len(values) : values[i] = Undefined THEN Undefined
  ELSE values[CHOOSE i \in 1..Len(values) :
                /\ values[i] # Undefined
                /\ \A j \in (i + 1)..Len(values) : values[j] = Undefined]

\* C26: line k's beginning clef and time signature are those most recently seen
\* across all staves of the systems up to the start of line k (its first system
\* included); a change that first appears in a later system of line k does not
\* alter them
C26_BeginningModifiersAtLineStart ==
  rpc \in {"barlines", "done"} =>
    \A k \in 1..Len(renderLines) :
      LET staves == StavesUpToStartOf(k)
      IN /\ beginningModifiers[k].clef =
              LastSeen([i \in 1..Len(staves) |-> staves[i].clef])
         /\ beginningModifiers[k].timeSignature =
              LastSeen([i \in 1..Len(staves) |-> staves[i].timeSignature])

----------------------------------------------------------------------------
(* The end barline of a line *)

\* C28: after the barline pass of Vexml.render every line has an end bar type: a
\* line that had none gets 'regular', and a line that already had one keeps it
C28_EveryLineHasEndBar ==
  rpc = "done" =>
    \A k \in 1..Len(renderLines) :
      /\ endBarTypes[k] # Undefined
      /\ renderLines[k].endBarType = Undefined => endBarTypes[k] = "regular"
      /\ renderLines[k].endBarType # Undefined =>
           endBarTypes[k] = renderLines[k].endBarType

\* the pass has run over a line that had no end bar type and over one that had a
\* bar type other than regular
C28_Witness ==
  /\ rpc = "done"
  /\ \E k \in 1..Len(renderLines) : renderLines[k].endBarType = Undefined
  /\ \E k \in 1..Len(renderLines) : renderLines[k].endBarType = "repeat-end"

----------------------------------------------------------------------------
(* The stave modifiers of a fragment *)

\* the fragment is the first of its system: no previous fragment, or one of
\* another system
FirstOnLine ==
  ~previousMeasureFragment.exists
    \/ previousMeasureFragment.systemId # fragment.systemId

\* the modifiers in which some stave differs from the stave at the same index of
\* the previous fragment
DifferingModifiers ==
  {m \in StaveModifierNames :
     \E index \in 1..Len(fragment.staves) :
       fragment.staves[index][m] # previousMeasureFragment.staves[index][m]}

\* C27: getChangedStaveModifiers returns all of clef, key signature and time
\* signature when there is no previous fragment or the previous fragment belongs
\* to a different system, and otherwise exactly the union over the staves of the
\* modifiers that differ from the stave at the same index of the previous
\* fragment; a fragment that is not first on its line and has no change adds no
\* modifier width to its minimum required width
C27_ChangedStaveModifiers ==
  cpc = "done" =>
    /\ FirstOnLine => changedModifiers = StaveModifierNames
    /\ ~FirstOnLine => changedModifiers = DifferingModifiers
    /\ (~FirstOnLine /\ DifferingModifiers = {}) =>
         changedMinRequiredWidth = fragment.minJustifyWidth

\* the width of a two-stave fragment has been asked for after a fragment of the
\* same system that differs from it in nothing
C27_Witness ==
  /\ cpc = "done"
  /\ ~FirstOnLine
  /\ Len(fragment.staves) = 2
  /\ DifferingModifiers = {}
  /\ changedMinRequiredWidth = fragment.minJustifyWidth

----------------------------------------------------------------------------
(* The width of the lines of partitionToLines *)

\* partitionToLines has returned
LinesReturned == lpc \in {"fit", "done"}

\* C32: every line returned by partitionToLines that holds two or more systems
\* has a total assigned width of at most the target width; only a line of a
\* single system can be wider than the target width
C32_OnlySingleSystemLineOverflows ==
  LinesReturned =>
    \A k \in 1..Len(lines) :
      /\ Len(lines[k]) >= 2 => AssignedWidth(lines[k]) <= width
      /\ AssignedWidth(lines[k]) > width => Len(lines[k]) = 1

\* a returned line of two systems fills the target width to the pixel, and
\* another returned line has one system
C32_Witness ==
  /\ LinesReturned
  /\ \E k \in 1..Len(lines) : Len(lines[k]) = 2 /\ AssignedWidth(lines[k]) = width
  /\ \E k \in 1..Len(lines) : Len(lines[k]) = 1

----------------------------------------------------------------------------
(* The open and closed tuplets of a voice context *)

\* VoiceContext.getTuplets
getTuplets == closedTuplets

\* the ids of the open tuplets
OpenTupletIds == {openTuplets[i].v : i \in 1..Len(openTuplets)}

\* no tuplet is open and closed at once, and no tuplet is listed twice
TupletsDisjointAndListedOnce ==
  /\ OpenTupletIds \cap Range(getTuplets) = {}
  /\ \A i, j \in 1..Len(getTuplets) : getTuplets[i] = getTuplets[j] => i = j

\* a close of the number n has returned: every tuplet begun under n in this voice
\* context is listed
BegunTupletsListedAfterClose ==
  (lastCall.op = "closeTuplet" /\ lastCall.ret # Null) =>
    stopped.tuplet[lastCall.num] \subseteq Range(getTuplets)

\* closeTuplet(n) lists the open tuplet of n last and returns it; without an open
\* tuplet of n it returns null and changes nothing
CloseTupletStep ==
  \A n \in TupletNumbers :
    CloseTuplet(n) =>
      IF MapHas(openTuplets, n)
        THEN /\ getTuplets' = Append(getTuplets, MapGet(openTuplets, n))
             /\ lastCall'.ret = MapGet(openTuplets, n)
        ELSE /\ lastCall'.ret = Null
             /\ UNCHANGED <<openTuplets, closedTuplets>>

\* C36: in a VoiceContext the open and the closed tuplets are disjoint after
\* every operation; getTuplets() lists exactly the tuplets closed so far, in
\* closing order and each at most once; closeTuplet(n) for a number with no open
\* tuplet returns null and changes nothing; and every tuplet that was begun is
\* listed by getTuplets() once its number is closed, also when a second
\* beginTuplet reused the number before the close
C36_BegunTupletsGetClosed ==
  /\ [](TupletsDisjointAndListedOnce /\ BegunTupletsListedAfterClose)
  /\ [][CloseTupletStep]_vars

----------------------------------------------------------------------------
(* The voices of a parsed stave *)

\* the indexes of the note events of the stave that carry the voice id
NoteEventsOf(voiceId) ==
  SelectSeq([i \in 1..Len(staveEvents) |-> i],
            LAMBDA i : staveEvents[i].type = "note" /\ staveEvents[i].voiceId = voiceId)

\* the voice ids of the note events of the stave
NoteVoiceIds == {staveEvents[i].voiceId : i \in {j \in 1..Len(staveEvents) : staveEvents[j].type = "note"}}

\* the event where a voice id appears first
FirstAppearance(voiceId) == NoteEventsOf(voiceId)[1]

\* C31: Stave.parse yields one voice per distinct voiceId among the note events
\* of the stave, in order of first appearance, each voice built from exactly the
\* events that carry its voiceId; a stave whose events carry two or more voice
\* ids parses without an assertion failure
C31_OneVoicePerVoiceId ==
  /\ stavePc # "threw"
  /\ stavePc = "done" =>
       /\ Len(staveVoices) = Cardinality(NoteVoiceIds)
       /\ \A k \in 1..Len(staveVoices) :
            /\ staveVoices[k].id \in NoteVoiceIds
            /\ staveVoices[k].events = NoteEventsOf(staveVoices[k].id)
       /\ \A k, l \in 1..Len(staveVoices) :
            k < l => FirstAppearance(staveVoices[k].id) < FirstAppearance(staveVoices[l].id)

----------------------------------------------------------------------------
(* The duration denominator inferred from a duration *)

\* the switch of calculateDurationDenominator with a case for every power of two
\* from 4 beats down to 1/256 of a beat
DenominatorOfEveryPowerOfTwo(beats) ==
  IF beats = RInt(4) THEN "1"
  ELSE IF beats = RInt(2) THEN "2"
  ELSE IF beats.n = 1 /\ beats.d \in {1, 2, 4, 8, 16, 32, 64, 128, 256}
    THEN CASE beats.d = 1 -> "4" [] beats.d = 2 -> "8" [] beats.d = 4 -> "16"
           [] beats.d = 8 -> "32" [] beats.d = 16 -> "64" [] beats.d = 32 -> "128"
           [] beats.d = 64 -> "256" [] beats.d = 128 -> "512" [] beats.d = 256 -> "1024"
  ELSE ""

\* C33: when the type of a note is omitted, the denominator inferred from a
\* duration of b quarter-note beats is 4/b for every power of two b from 4 down
\* to 1/256 ('1', '2', '4', '8', '16', ..., '1024'), and the empty denominator
\* only for a duration that is no such power of two
C33_DenominatorOfPowersOfTwo ==
  (dpc = "done" /\ durNote.type = NoType) =>
    durationDenominator = DenominatorOfEveryPowerOfTwo(toBeats(durNote))

----------------------------------------------------------------------------
(* The equality of keys *)

\* what the method of the latest call returns for the keys the other way round
SwappedResult ==
  IF keyCall.method = "isEqual" THEN isEqual(keyArg, keyThis) ELSE isEquivalent(keyArg, keyThis)

\* C34: Key.isEquivalent and Key.isEqual are reflexive and symmetric: a key
\* compares equal to a key of the same fields, Key.default and every other key
\* without a previous key included, and a.isEqual(b) is b.isEqual(a)
C34_KeyEqualityReflexiveSymmetric ==
  kpc = "done" =>
    /\ keyCall.result = SwappedResult
    /\ keyThis = keyArg => keyCall.result

----------------------------------------------------------------------------
(* The key signature of a fifths count *)

\* the major keys of the circle of fifths, from seven flats to seven sharps
CircleOfFifths ==
  <<"Cb", "Gb", "Db", "Ab", "Eb", "Bb", "F", "C", "G", "D", "A", "E", "B", "F#", "C#">>

\* C39: getKeySignature maps each fifths count from -7 to 7 to the key of the
\* circle of fifths at that count, fifteen distinct names (-5 gives 'Db', -7
\* gives 'Cb'), and a missing or out-of-range fifths count to 'C'
C39_KeySignatureFollowsCircle ==
  (qpc = "done" /\ keyReturn.method = "getKeySignature") =>
    IF keyElement.fifths.present /\ keyElement.fifths.value \in -7..7
      THEN keyReturn.name = CircleOfFifths[keyElement.fifths.value + 8]
      ELSE keyReturn.name = "C"

----------------------------------------------------------------------------
(* The beams extracted from a voice *)

\* the stemmable entries that carry a beam value, in voice order
BeamedStemmables ==
  SelectSeq(Stemmables, LAMBDA i : beamEntries[i].beamValue # NoBeamValue)

\* C37: extractVfBeams puts every stemmable entry whose beam value is begin,
\* continue, a hook or end into exactly one beam, in voice order: a beam is
\* closed at each 'end', a group still open at the last stemmable entry is closed
\* there, no beam is empty, and an entry without a beam value belongs to no beam
C37_EveryBeamedEntryInOneBeam ==
  bpc = "done" =>
    /\ Flatten(vfBeams) = BeamedStemmables
    /\ \A b \in 1..Len(vfBeams) :
         /\ vfBeams[b] # <<>>
         /\ \A k \in 1..Len(vfBeams[b]) :
              beamEntries[vfBeams[b][k]].beamValue = "end" => k = Len(vfBeams[b])
    /\ \A i \in 1..Len(beamEntries) :
         beamEntries[i].beamValue = "end" =>
           \E b \in 1..Len(vfBeams) : vfBeams[b][Len(vfBeams[b])] = i

\* a voice of four entries has given two beams: one closed at an 'end', one
\* closed at the last stemmable while open; an entry without a beam value is in
\* neither
C37_Witness ==
  /\ bpc = "done"
  /\ Len(vfBeams) = 2
  /\ Len(vfBeams[1]) = 2
  /\ beamEntries[vfBeams[1][2]].beamValue = "end"
  /\ beamEntries[vfBeams[2][Len(vfBeams[2])]].beamValue = "begin"
  /\ \E i \in 1..Len(beamEntries) :
       beamEntries[i].type = "note" /\ beamEntries[i].beamValue = NoBeamValue

----------------------------------------------------------------------------
(* The part labels of a score *)

\* the first fragment of the first measure of the first system
FirstFragmentOfScore ==
  frKey.systemIndex = 0 /\ frKey.measureIndex = 0 /\ frKey.measureEntryIndex = 0

\* C38: part labels are rendered once per score: Fragment.render produces a part
\* label group only for the first fragment of the first measure of the first
\* system; every other fragment gets partLabelGroupRender = null and hands its
\* full width to its parts
C38_PartLabelsOncePerScore ==
  frPc = "done" =>
    /\ partLabelGroupRender.exists <=> FirstFragmentOfScore
    /\ ~FirstFragmentOfScore =>
         \A partIndex \in 1..Len(partWidths) : partWidths[partIndex] = frWidth

----------------------------------------------------------------------------
(* A fragment render is formatted once *)

\* a call of format throws unless the render is unformatted and the cache, when
\* one is given, comes from a draw; a call that throws leaves the rects alone; a
\* call that returns leaves rectSrc at 'draw' without a cache and at 'cache' with
\* one, the rects and excess heights then being those of the cache at every index
FormatStep ==
  fmtCalls' = fmtCalls + 1 =>
    LET cache == fmtParams'.cache
    IN /\ fmtLast' = "threw" <=>
            \/ fragmentRender.rectSrc # "none"
            \/ cache.exists /\ cache.render.rectSrc # "draw"
       /\ fmtLast' = "threw" => fragmentRender' = fragmentRender
       /\ fmtLast' = "returned" =>
            /\ fragmentRender'.rectSrc = IF cache.exists THEN "cache" ELSE "draw"
            /\ cache.exists =>
                 fragmentRender' = [cache.render EXCEPT !.rectSrc = "cache"]

\* C35: a FragmentRender is formatted at most once: Ensemble.format throws unless
\* the render's rectSrc is 'none', and after a successful format rectSrc is 'draw'
\* when no cache was given and 'cache' when one was given; formatting from a cache
\* throws unless the cache's rectSrc is 'draw', and otherwise copies the cache's
\* rects and excess heights to the fragment and to every part, stave, voice and
\* entry at the same index
C35_FormattedAtMostOnce ==
  /\ [](fmtReturned <= 1)
  /\ [][FormatStep]_vars

\* a render of two parts and two entries was formatted from a cache, and a later
\* call of format on it threw
C35_Witness ==
  /\ fmtCalls = 2
  /\ fmtReturned = 1
  /\ fmtLast = "threw"
  /\ fragmentRender.rectSrc = "cache"
  /\ ShapeOf(fragmentRender) = [parts |-> 2, entries |-> 2]
  /\ fragmentRender.partRenders[2].staveRenders[1].voiceRenders[1].entryRenders[2].rect
       # EmptyRect

----------------------------------------------------------------------------
(* The MusicXML of the latest source *)

\* the MusicXML of a source: its own when it is local, the response when remote
MusicXMLOf(source) ==
  IF source.type = "local" THEN source.musicXML ELSE ResponseText(source.url)

\* the hook returns the MusicXML of the source of the latest render, once loaded
ReturnsLatestSource == hookLoaded => musicXML = MusicXMLOf(currentSource)

\* no error of an earlier request is reported once the latest source has loaded
NoEarlierError == hookLoaded => error = NoError

\* C40: useMusicXML returns the MusicXML of the most recently requested source:
\* when the source changes while a remote fetch is in flight, a late response of
\* the older request never overwrites the MusicXML of the newer source, and an
\* error of an earlier request is no longer reported once a later source has
\* loaded
C40_LatestSourceWins == ReturnsLatestSource /\ NoEarlierError

====
